---------------------------- MODULE Spec2Model ----------------------------
(***************************************************************************)
(* Model of the navigation-tracking experiment: the page script            *)
(* (src/unnamed/part_000) and the service worker (src/service-worker.js).  *)
(*                                                                         *)
(* Every `await` of the source is a point where another handler may run,   *)
(* so every asynchronous function is cut into one action per resumption.   *)
(* The platform (push manager, cache storage, network) is the environment: *)
(* its answers are drawn with \E from small sets.                          *)
(***************************************************************************)
EXTENDS Integers, Sequences, FiniteSets, Bags, TLC

(***************************************************************************)
(* Bounds of the model.                                                    *)
(***************************************************************************)
\* number of invocations of the permission button's click handler
MaxCalls == 2

\* number of fetch events the worker handles (SpecFetch)
MaxFetches == 2

\* number of navigations to the tracked domain (SpecNav)
MaxNavs == 1

\* number of times the page is loaded (SpecPage)
MaxLoads == 2

\* length of the strings given to urlBase64ToUint8Array (SpecCodec)
MaxLen == 4

\* number of push events the worker receives (SpecPush)
MaxPushes == 2

Calls == 1..MaxCalls

Fetches == 1..MaxFetches

Navs == 1..MaxNavs

\* self.clients.matchAll(): the pages the worker controls, the one the user
\* clicks in and another one
Clients == {"page", "other-page"}

\* the fetch events of the navigations and subresources; in SpecNav event e
\* is the navigation e
LoadEvents == 1..(IF MaxFetches > MaxNavs THEN MaxFetches ELSE MaxNavs)

\* the fetch events of the page's own requests to the collection server: what
\* one navigation and one click on the permission button make the page send
\* (a report of the click on the link, a report per client for the worker's
\* message, a POST to /subscribe), and one more
PostEvents ==
    { Cardinality(LoadEvents) + i : i \in 1..(Cardinality(Clients) + 3) }

Events == LoadEvents \cup PostEvents

(***************************************************************************)
(* Key Codec: urlBase64ToUint8Array (part_000:15-28).                      *)
(* A string is a sequence of one-character strings.                        *)
(***************************************************************************)
B64Chars ==
    << "A", "B", "C", "D", "E", "F", "G", "H", "I", "J", "K", "L", "M", "N", "O", "P",
       "Q", "R", "S", "T", "U", "V", "W", "X", "Y", "Z", "a", "b", "c", "d", "e", "f",
       "g", "h", "i", "j", "k", "l", "m", "n", "o", "p", "q", "r", "s", "t", "u", "v",
       "w", "x", "y", "z", "0", "1", "2", "3", "4", "5", "6", "7", "8", "9", "+", "/" >>

IsB64Char(c) == \E i \in DOMAIN B64Chars : B64Chars[i] = c

B64Value(c) == (CHOOSE i \in DOMAIN B64Chars : B64Chars[i] = c) - 1

\* '='.repeat((4 - base64String.length % 4) % 4)
Padding(base64String) ==
    [i \in 1..((4 - (Len(base64String) % 4)) % 4) |-> "="]

\* a faulty variant of the replacement below: nothing is replaced
Translate_Mutant(s) == s

\* .replace(/\-/g, '+').replace(/_/g, '/')
Translate(s) ==
    [i \in 1..Len(s) |-> IF s[i] = "-" THEN "+" ELSE IF s[i] = "_" THEN "/" ELSE s[i]]

\* window.atob, step 2 of forgiving-base64 decode: a string whose length is a
\* multiple of 4 loses one or two trailing '='
StripPadding(s) ==
    IF Len(s) > 0 /\ Len(s) % 4 = 0 /\ s[Len(s)] = "="
    THEN IF s[Len(s) - 1] = "=" THEN SubSeq(s, 1, Len(s) - 2)
                                ELSE SubSeq(s, 1, Len(s) - 1)
    ELSE s

\* the bytes of the 6-bit groups of s (s holds alphabet characters only, and
\* Len(s) % 4 # 1); the bits left over by a last group of 2 or 3 are dropped
RECURSIVE DecodeGroups(_)
DecodeGroups(s) ==
    IF Len(s) = 0 THEN << >>
    ELSE IF Len(s) >= 4
    THEN LET n == ((B64Value(s[1]) * 64 + B64Value(s[2])) * 64
                      + B64Value(s[3])) * 64 + B64Value(s[4])
         IN  << n \div 65536, (n \div 256) % 256, n % 256 >>
                 \o DecodeGroups(SubSeq(s, 5, Len(s)))
    ELSE IF Len(s) = 3
    THEN LET n == (B64Value(s[1]) * 64 + B64Value(s[2])) * 64 + B64Value(s[3])
         IN  << n \div 1024, (n \div 4) % 256 >>
    ELSE LET n == B64Value(s[1]) * 64 + B64Value(s[2])
         IN  << n \div 16 >>

\* window.atob: the decoded binary string (a sequence of char codes), or a
\* thrown InvalidCharacterError (ok = FALSE)
atob(base64) ==
    LET s == StripPadding(base64)
    IN  IF Len(s) % 4 = 1 \/ \E i \in 1..Len(s) : ~IsB64Char(s[i])
        THEN [ok |-> FALSE, data |-> << >>]
        ELSE [ok |-> TRUE, data |-> DecodeGroups(s)]

\* urlBase64ToUint8Array: outputArray[i] = rawData.charCodeAt(i), an error of
\* atob propagates to the caller
urlBase64ToUint8Array(base64String) ==
    LET base64  == Translate(base64String \o Padding(base64String))
        rawData == atob(base64)
    IN  [ok |-> rawData.ok,
         data |-> [i \in 1..Len(rawData.data) |-> rawData.data[i] % 256]]

(***************************************************************************)
(* The keys.                                                               *)
(***************************************************************************)
\* the hardcoded VAPID public key of subscribeUserToPush (part_000:53)
HardcodedKey ==
    << "B", "G", "1", "N", "f", "r", "H", "D", "g", "w", "E", "I", "x", "e", "4", "A",
       "C", "q", "e", "c", "f", "s", "0", "w", "B", "0", "T", "2", "v", "1", "D", "a",
       "T", "E", "4", "5", "M", "g", "z", "Z", "U", "4", "b", "o", "v", "j", "n", "G",
       "K", "w", "w", "8", "e", "S", "v", "-", "R", "8", "r", "6", "8", "W", "_", "L",
       "m", "V", "3", "W", "T", "I", "z", "c", "c", "K", "0", "1", "C", "2", "F", "C",
       "w", "M", "5", "5", "C", "L", "Q" >>

\* what GET /vapidPublicKey may answer in data.publicKey: the same key as the
\* hardcoded one, another well-formed key, a string that decodes to something
\* that is no P-256 point, and a string atob rejects
OtherServerKey == [HardcodedKey EXCEPT ![87] = "A"]
ShortServerKey == << "B", "A", "-", "_" >>
UndecodableServerKey == << "B", "G", "!", "N" >>

ServerKeys == {HardcodedKey, OtherServerKey, ShortServerKey, UndecodableServerKey}

\* the outcomes of `await fetch(.../vapidPublicKey)` and `await response.json()`
\* that end in the catch block of part_000:51: a rejected request, a body that
\* is no JSON, a JSON body without a publicKey string (substring throws)
KeyFetchFailures == {"network-error", "bad-json", "no-publicKey"}

\* every way GET /vapidPublicKey may end
KeyAnswers ==
    {[kind |-> f, publicKey |-> << >>] : f \in KeyFetchFailures}
        \cup {[kind |-> "publicKey", publicKey |-> k] : k \in ServerKeys}

\* the push service accepts an applicationServerKey that is an uncompressed
\* P-256 point: 65 bytes, the first of them 0x04
IsP256Point(bytes) == Len(bytes) = 65 /\ bytes[1] = 4


(***************************************************************************)
(* State.                                                                  *)
(***************************************************************************)
VARIABLES
    \* ---- the platform, as the page script sees it
    notificationSupported, \* 'Notification' in window
    pushSupported,      \* 'serviceWorker' in navigator && 'PushManager' in window
    permission,         \* Notification.permission
    pushSub,            \* the registration's push subscription, NoSub when there is none
    created,            \* number of subscriptions the push service has created
    localStorage,       \* the value of the key 'pushSubscription', NoItem when absent
    \* ---- one invocation of the permission button's click handler per call
    pc,                 \* where the call is
    applicationServerKey, \* the call's converted key
    keyFetchFailed,     \* the call's GET /vapidPublicKey ended in the catch block
    subscription,       \* the call's local variable `subscription`
    returned,           \* what subscribeUserToPush returned, NoSub for undefined
    subscribePosts,     \* the POSTs to /subscribe issued so far
    \* ---- history of the calls, read by the properties only
    subscribeInvoked,   \* "no", or had a subscription existed when the call invoked subscribe()
    stored,             \* the call has written localStorage
    entered,            \* subscribeUserToPush was entered and got past its support check
    subAtStart,         \* a subscription existed when subscribeUserToPush was entered
    afterPrevious       \* the previous call had finished when subscribeUserToPush was entered

subVars == << notificationSupported, pushSupported, permission, pushSub,
              created, localStorage, pc, applicationServerKey, keyFetchFailed,
              subscription, returned, subscribePosts, subscribeInvoked, stored,
              entered, subAtStart, afterPrevious >>

\* no PushSubscription: null from getSubscription(), undefined from subscribeUserToPush
NoSub == [endpoint |-> 0, key |-> << >>]

\* localStorage.getItem of an absent key: null
NoItem == << >>

\* a faulty variant of the serialization below: the endpoint is lost
JSONstringify_Mutant(sub) == << "endpoint", 0 >>

\* JSON.stringify(subscription): PushSubscription.toJSON() carries the endpoint
\* (the applicationServerKey is not part of it)
JSONstringify(sub) == << "endpoint", sub.endpoint >>

\* JSON.parse(subscriptionString).endpoint
JSONparseEndpoint(item) == item[2]

VARIABLES
    \* ---- cache storage
    cacheNames,         \* caches.keys(): the buckets that exist
    cacheEntries,       \* the stored responses: [bucket, url, status]
    \* ---- the worker's lifecycle
    activatePc,         \* where the activate handler is
    toDelete,           \* the buckets whose caches.delete() is pending
    bucketsBefore,      \* history: the buckets that existed when activate began
    \* ---- one fetch event per e \in Events
    request,            \* event.request, NoRequest before the event is dispatched
    respond,            \* where the promise given to event.respondWith is
    response,           \* the status of the response delivered, 0 when none
    networkCalls,       \* number of fetch(event.request) calls of the handler
    putPending,         \* the status of the clone waiting for cache.put, 0 when none
    putIssued,          \* history: the handler has handed a clone to cache.put
    missed,             \* history: caches.match resolved with no response
    swReport,           \* where the worker's logNavigationToServer is
    swSubscription,     \* its subscriptionData
    notify,             \* where the clients.matchAll() of the navigation branch is
    \* ---- messages and reports
    inbox,              \* 'navigation' messages posted to clients, not yet handled
    navPosts            \* the bag of the POSTs to /log-navigation issued so far

swVars == << cacheNames, cacheEntries, activatePc, toDelete, bucketsBefore,
             request, respond, response, networkCalls, putPending, putIssued,
             missed, swReport, swSubscription, notify, inbox, navPosts >>

VARIABLES
    \* ---- the page load (DOMContentLoaded, part_000:142-226)
    loaded,             \* the DOMContentLoaded handler has run: the listeners are attached
    loads,              \* number of page loads so far
    regPc,              \* where the register().then(...) chain of the load is
    regSubscription     \* the subscription its getSubscription() resolved with

loadVars == << loaded, loads, regPc, regSubscription >>

VARIABLES
    \* ---- one conversion of a key (urlBase64ToUint8Array, part_000:15-28)
    base64Input,        \* the argument base64String
    codecPc,            \* "idle", or where the conversion is
    outputArray,        \* the result: the bytes, or the error atob threw
    reencoded           \* the bytes written back in the base64url alphabet

codecVars == << base64Input, codecPc, outputArray, reencoded >>

VARIABLES
    \* ---- one push event per k \in Pushes, and the click on its notification
    pushData,           \* event.data
    pushResult,         \* "none", or how the push handler ended: "shown", "threw"
    notification,       \* what showNotification was called with
    showCalls,          \* number of showNotification calls of the handler
    clickPc,            \* where the notificationclick handler is
    closed,             \* event.notification.close() was called
    focused,            \* the URL of the client that was focused
    opened,             \* the target openWindow was called with
    matched,            \* history: a window showed the target when the click was handled
    windows             \* the URLs of the open windows of the origin

pushVars == << pushData, pushResult, notification, showCalls, clickPc, closed,
               focused, opened, matched, windows >>

VARIABLES
    \* ---- the worker's install handler (service-worker.js:51-70)
    installPc,          \* where the promise given to event.waitUntil is
    preload,            \* the state of the request cache.addAll made for each path
    skipWaiting         \* self.skipWaiting() was called

installVars == << installPc, preload, skipWaiting >>

VARIABLES
    \* ---- the worker's log (swLog, service-worker.js:6-18) and the page's
    \* requests that pass through the worker's fetch handler
    swLogs,             \* number of swLog calls whose clients.matchAll() is pending
    logInbox,           \* per client, the 'log' messages posted and not yet handled
    origin,             \* per fetch event, the page's POST it carries, NoPost for another request
    reportDone          \* per fetch event, how the page's reporter of that POST ended

loopVars == << swLogs, logInbox, origin, reportDone >>

\* what a call of swLog leaves alone of this group
noLog == << logInbox, origin, reportDone >>

extVars == << loadVars, codecVars, pushVars, installVars, loopVars >>

\* what the handlers of one group leave alone of the other groups
exceptLoad == << codecVars, pushVars, installVars, loopVars >>
exceptCodec == << loadVars, pushVars, installVars, loopVars >>
exceptPush == << loadVars, codecVars, installVars, loopVars >>
exceptInstall == << loadVars, codecVars, pushVars, loopVars >>
exceptLoop == << loadVars, codecVars, pushVars, installVars >>

\* swLog(message), called n times: each call writes to the console and calls
\* self.clients.matchAll() (service-worker.js:6-10)
swLog(n) == swLogs' = swLogs + n

(***************************************************************************)
(* Names, hosts, paths. A bucket name is its prefix and its version tag; a *)
(* host is its sequence of labels; a path its sequence of segments.        *)
(***************************************************************************)
\* const VERSION = 'v1' (service-worker.js:2)
VERSION == "v1"

\* `static-cache-${VERSION}` (service-worker.js:55, 82, 148)
CurrentCache == [prefix |-> "static-cache-", tag |-> VERSION]

\* buckets a profile may hold from earlier versions of the worker or from
\* other scripts of the origin
StaleStaticCaches ==
    {[prefix |-> "static-cache-", tag |-> t] : t \in {"v0", "v2", "v10"}}

ForeignCaches ==
    {[prefix |-> "images-", tag |-> "v0"], [prefix |-> "static-cache", tag |-> ""]}

\* new URL(SERVER_URL).hostname (service-worker.js:3, 140)
ServerHost == << "vercel-server-1v1v", "onrender", "com" >>

\* the origin the worker is served from, and a third party's host
OwnHost == << "tracker", "vercel", "app" >>
CdnHost == << "cdn", "example", "com" >>

\* the list given to cache.addAll (service-worker.js:57-63)
PrecachedPaths ==
    { << >>, << "index.html" >>, << "page2.html" >>, << "style.css" >>, << "app.js" >> }

URL(host, path) == [host |-> host, path |-> path]

NoRequest == [url |-> URL(<< >>, << >>), method |-> "", mode |-> ""]

\* the push events; notification k is the one push event k showed
Pushes == 1..MaxPushes

\* a URL as a notification carries it (notification.data.url): the string is
\* an absolute URL, or a path the platform resolves against the worker's
\* location; NoTarget stands for the empty string and the missing field
Target(form, url) == [form |-> form, url |-> url]
NoTarget == Target("", URL(<< >>, << >>))

\* no window: nothing was focused
NoUrl == URL(<< >>, << >>)

\* a notification's title and options (service-worker.js:174-184)
Notification(title, body, icon, tag, url) ==
    [title |-> title, body |-> body, icon |-> icon, tag |-> tag, url |-> url]

NoNotification == Notification("", "", "", "", NoTarget)

\* event.data of a push event: null, or a message whose text is no JSON, the
\* JSON texts `null` and `5`, or a JSON object with the fields given
\* ("" for a field that is missing or empty)
PushData(kind, fields) == [kind |-> kind, fields |-> fields]

\* no push event was received and no notification was clicked
PushIdle ==
    /\ pushData = [k \in Pushes |-> PushData("absent", NoNotification)]
    /\ pushResult = [k \in Pushes |-> "none"]
    /\ notification = [k \in Pushes |-> NoNotification]
    /\ showCalls = [k \in Pushes |-> 0]
    /\ clickPc = [k \in Pushes |-> "none"]
    /\ closed = [k \in Pushes |-> FALSE]
    /\ focused = [k \in Pushes |-> NoUrl]
    /\ opened = [k \in Pushes |-> NoTarget]
    /\ matched = [k \in Pushes |-> FALSE]

\* no request of the page: a fetch event that carries none has this origin
NoPost == [kind |-> "none", from |-> "", client |-> "", nav |-> 0]

\* no log of the worker is on its way, no request of the page has passed
\* through the worker
LoopIdle ==
    /\ swLogs = 0
    /\ logInbox = [c \in Clients |-> 0]
    /\ origin = [e \in Events |-> NoPost]
    /\ reportDone = [e \in Events |-> "none"]

\* no fetch event has been dispatched
FetchIdle ==
    /\ request = [e \in Events |-> NoRequest]
    /\ respond = [e \in Events |-> "none"]
    /\ response = [e \in Events |-> 0]
    /\ networkCalls = [e \in Events |-> 0]
    /\ putPending = [e \in Events |-> 0]
    /\ putIssued = [e \in Events |-> FALSE]
    /\ missed = [e \in Events |-> FALSE]
    /\ swReport = [e \in Events |-> "none"]
    /\ swSubscription = [e \in Events |-> NoSub]
    /\ notify = [e \in Events |-> "none"]
    /\ inbox = {}
    /\ navPosts = EmptyBag

\* the worker's state when no event has been dispatched to it; the page is
\* the one window of the origin
SwIdle ==
    /\ FetchIdle
    /\ PushIdle
    /\ LoopIdle
    /\ windows = {URL(OwnHost, << >>)}

\* no worker was ever registered in the profile: its caches hold what other
\* scripts of the origin and earlier versions of the worker have left
NotInstalled(others) ==
    /\ installPc = "none"
    /\ preload = [path \in PrecachedPaths |-> "none"]
    /\ skipWaiting = FALSE
    /\ cacheNames = others
    /\ cacheEntries =
           {[bucket |-> b, url |-> URL(CdnHost, << "lib.js" >>), status |-> 200] :
                b \in others}

\* what install leaves (service-worker.js:51-70): the current bucket holds the
\* precached paths, each a successful response (addAll rejects any other)
Installed(others) ==
    /\ installPc = "installed"
    /\ preload = [path \in PrecachedPaths |-> "ok"]
    /\ skipWaiting = TRUE
    /\ cacheNames = {CurrentCache} \cup others
    /\ cacheEntries =
           {[bucket |-> CurrentCache, url |-> URL(OwnHost, path), status |-> 200] :
                path \in PrecachedPaths}
             \cup {[bucket |-> b, url |-> URL(CdnHost, << "lib.js" >>),
                    status |-> 200] : b \in others}

\* the worker is active: activate has run, the stale buckets are gone
SwActivated(others) ==
    /\ Installed(others)
    /\ activatePc = "claimed"
    /\ toDelete = {}
    /\ bucketsBefore = cacheNames
    /\ SwIdle

\* no key is being converted
CodecIdle ==
    /\ base64Input = << >>
    /\ codecPc = "idle"
    /\ outputArray = [ok |-> FALSE, data |-> << >>]
    /\ reencoded = << >>

\* no page load is under way: the last one has attached the listeners and its
\* register().then(...) chain has found no subscription
PageLoaded ==
    /\ loaded = TRUE
    /\ loads = 1
    /\ regPc = "done"
    /\ regSubscription = NoSub

\* the profile is new and no call of the permission button's handler runs
ProfileFresh ==
    /\ permission = "default"
    /\ pushSub = NoSub
    /\ created = 0
    /\ localStorage = NoItem
    /\ pc = [p \in Calls |-> "idle"]
    /\ applicationServerKey = [p \in Calls |-> << >>]
    /\ keyFetchFailed = [p \in Calls |-> FALSE]
    /\ subscription = [p \in Calls |-> NoSub]
    /\ returned = [p \in Calls |-> NoSub]
    /\ subscribePosts = {}
    /\ subscribeInvoked = [p \in Calls |-> "no"]
    /\ stored = [p \in Calls |-> FALSE]
    /\ entered = [p \in Calls |-> FALSE]
    /\ subAtStart = [p \in Calls |-> FALSE]
    /\ afterPrevious = [p \in Calls |-> FALSE]

\* the page's state when the permission button has not been clicked yet
PageFresh ==
    /\ ProfileFresh
    /\ PageLoaded
    /\ CodecIdle

\* a browser with service workers, push and notifications
PageIdle ==
    /\ notificationSupported = TRUE
    /\ pushSupported = TRUE
    /\ PageFresh

\* the page is loaded in any browser; where service workers exist the worker
\* is installed and waits for its activation
SubInit ==
    /\ notificationSupported \in BOOLEAN
    /\ pushSupported \in BOOLEAN
    /\ PageFresh
    /\ IF pushSupported
       THEN Installed({}) /\ activatePc = "installed"
       ELSE NotInstalled({}) /\ activatePc = "none"
    /\ toDelete = {}
    /\ bucketsBefore = {}
    /\ SwIdle

(***************************************************************************)
(* The push manager of the platform (Push API): subscribe() with a key     *)
(* that is no P-256 point rejects; with no subscription it creates one;    *)
(* with a subscription of the same key it resolves with that one; with a   *)
(* subscription of another key it rejects (InvalidStateError).             *)
(***************************************************************************)
PushManagerSubscribe(key) ==
    IF ~IsP256Point(key) THEN [ok |-> FALSE, sub |-> NoSub]
    ELSE IF pushSub = NoSub
    THEN [ok |-> TRUE, sub |-> [endpoint |-> created + 1, key |-> key]]
    ELSE IF pushSub.key = key THEN [ok |-> TRUE, sub |-> pushSub]
    ELSE [ok |-> FALSE, sub |-> NoSub]

(***************************************************************************)
(* The permission button (part_000:194-208) and subscribeUserToPush        *)
(* (part_000:31-85), one action per resumption.                            *)
(***************************************************************************)
\* the call goes on to `next` with its local variables set
Continue(p, next, key, sub) ==
    /\ pc' = [pc EXCEPT ![p] = next]
    /\ applicationServerKey' = [applicationServerKey EXCEPT ![p] = key]
    /\ subscription' = [subscription EXCEPT ![p] = sub]
    /\ UNCHANGED returned

\* the call returns `sub` (undefined from the catch block of part_000:82-84 and
\* from the early returns); its local variables are gone
Return(p, sub) ==
    /\ pc' = [pc EXCEPT ![p] = "done"]
    /\ applicationServerKey' = [applicationServerKey EXCEPT ![p] = << >>]
    /\ subscription' = [subscription EXCEPT ![p] = NoSub]
    /\ returned' = [returned EXCEPT ![p] = sub]

\* sendSubscriptionToServer(subscription) up to its first await: the POST to
\* /subscribe is issued (part_000:88-100)
sendSubscriptionToServer(p, sub) ==
    subscribePosts' = subscribePosts \cup {[call |-> p, endpoint |-> sub.endpoint]}

\* the click on the permission button: Notification.requestPermission() is
\* called when notifications are supported (part_000:195-206)
ClickPermissionButton(p) ==
    /\ loaded
    /\ pc[p] = "idle"
    /\ \A q \in Calls : q < p => pc[q] # "idle"
    /\ IF notificationSupported
       THEN Continue(p, "permission", << >>, NoSub)
       ELSE Return(p, NoSub)
    /\ UNCHANGED << swVars, extVars >>
    /\ UNCHANGED << notificationSupported, pushSupported, permission,
                    pushSub, created, localStorage, keyFetchFailed,
                    subscribePosts, subscribeInvoked, stored, entered,
                    subAtStart, afterPrevious >>

\* what requestPermission() may resolve with: the user is asked only while the
\* permission is still "default"
PermissionAnswers ==
    IF permission = "default" THEN {"default", "granted", "denied"} ELSE {permission}

\* a faulty variant of the test below: only a denial keeps the page from
\* subscribing
MaySubscribe_Mutant(perm) == perm # "denied"

\* subscribeUserToPush is entered only when the permission is granted
\* (part_000:199-202)
MaySubscribe(perm) == perm = "granted"

\* requestPermission().then(...) (part_000:197-203), and subscribeUserToPush up
\* to `await navigator.serviceWorker.ready` (part_000:32-39)
PermissionResolves(p, perm) ==
    /\ pc[p] = "permission"
    /\ perm \in PermissionAnswers
    /\ permission' = perm
    /\ IF MaySubscribe(perm)
       THEN /\ subAtStart' = [subAtStart EXCEPT ![p] = pushSub # NoSub]
            /\ afterPrevious' = [afterPrevious EXCEPT
                                   ![p] = p > 1 /\ pc[p - 1] = "done"]
            /\ entered' = [entered EXCEPT ![p] = pushSupported]
            /\ IF pushSupported
               THEN Continue(p, "ready", << >>, NoSub)
               ELSE Return(p, NoSub)
       ELSE /\ Return(p, NoSub)
            /\ UNCHANGED << entered, subAtStart, afterPrevious >>
    /\ UNCHANGED << swVars, extVars >>
    /\ UNCHANGED << notificationSupported, pushSupported, pushSub,
                    created, localStorage, keyFetchFailed, subscribePosts,
                    subscribeInvoked, stored >>

\* navigator.serviceWorker.ready: the registration has an active worker, which
\* it gets when the worker's activation begins (service-worker.js:73)
swActive == activatePc \in {"keys", "deleting", "claimed"}

\* `await navigator.serviceWorker.ready` resolves; GET /vapidPublicKey is issued
\* (part_000:39-47)
ReadyResolves(p) ==
    /\ pc[p] = "ready"
    /\ swActive
    /\ Continue(p, "keyFetch", << >>, NoSub)
    /\ UNCHANGED << swVars, extVars >>
    /\ UNCHANGED << notificationSupported, pushSupported, permission,
                    pushSub, created, localStorage, keyFetchFailed,
                    subscribePosts, subscribeInvoked, stored, entered,
                    subAtStart, afterPrevious >>

\* the key subscribeUserToPush goes on with (part_000:45-55): the server's, or
\* the hardcoded one when the fetch, the JSON parse or the substring threw
ChooseKey(answer) ==
    IF answer.kind \in KeyFetchFailures THEN HardcodedKey ELSE answer.publicKey

\* `const applicationServerKey = urlBase64ToUint8Array(vapidPublicKey)`
\* (part_000:58), for every answer of GET /vapidPublicKey
ConvertedKey == [answer \in KeyAnswers |-> urlBase64ToUint8Array(ChooseKey(answer))]

\* GET /vapidPublicKey is settled; the key is converted and getSubscription()
\* is called (part_000:47-61). A key atob rejects throws out of
\* urlBase64ToUint8Array into the outer catch.
KeyFetchResolves(p, answer) ==
    /\ pc[p] = "keyFetch"
    /\ answer \in KeyAnswers
    /\ keyFetchFailed' = [keyFetchFailed EXCEPT
                            ![p] = answer.kind \in KeyFetchFailures]
    /\ IF ConvertedKey[answer].ok
       THEN Continue(p, "getSubscription", ConvertedKey[answer].data, NoSub)
       ELSE Return(p, NoSub)
    /\ UNCHANGED << swVars, extVars >>
    /\ UNCHANGED << notificationSupported, pushSupported, permission,
                    pushSub, created, localStorage, subscribePosts,
                    subscribeInvoked, stored, entered, subAtStart, afterPrevious >>

\* the push manager reads the registration's subscription for the call's
\* getSubscription(); the promise is settled with what it read
PlatformGetSubscription(p) ==
    /\ pc[p] = "getSubscription"
    /\ Continue(p, "gotSubscription", applicationServerKey[p], pushSub)
    /\ UNCHANGED << swVars, extVars >>
    /\ UNCHANGED << notificationSupported, pushSupported, permission,
                    pushSub, created, localStorage, keyFetchFailed,
                    subscribePosts, subscribeInvoked, stored, entered,
                    subAtStart, afterPrevious >>

\* a bug that would subscribe again whatever getSubscription() returned
AlreadySubscribed_Mutant(sub) == FALSE

\* `if (subscription)` of part_000:63
AlreadySubscribed(sub) == sub # NoSub

\* `await registration.pushManager.getSubscription()` resumes (part_000:61-76):
\* an existing subscription is sent to the server, otherwise subscribe() is called
GetSubscriptionResolves(p) ==
    /\ pc[p] = "gotSubscription"
    /\ IF AlreadySubscribed(subscription[p])
       THEN /\ sendSubscriptionToServer(p, subscription[p])
            /\ Continue(p, "send", applicationServerKey[p], subscription[p])
            /\ UNCHANGED subscribeInvoked
       ELSE /\ subscribeInvoked' = [subscribeInvoked EXCEPT
                  ![p] = IF pushSub # NoSub THEN "exists" ELSE "fresh"]
            /\ Continue(p, "subscribe", applicationServerKey[p], subscription[p])
            /\ UNCHANGED subscribePosts
    /\ UNCHANGED << swVars, extVars >>
    /\ UNCHANGED << notificationSupported, pushSupported, permission,
                    pushSub, created, localStorage, keyFetchFailed, stored,
                    entered, subAtStart, afterPrevious >>

\* `await registration.pushManager.subscribe(...)` is settled by the push
\* manager (part_000:67-76): the subscription is sent to the server, a
\* rejection goes to the outer catch
SubscribeResolves(p) ==
    /\ pc[p] = "subscribe"
    /\ LET answer == PushManagerSubscribe(applicationServerKey[p])
       IN  IF answer.ok
           THEN /\ pushSub' = answer.sub
                /\ created' = IF pushSub = NoSub THEN created + 1 ELSE created
                /\ sendSubscriptionToServer(p, answer.sub)
                /\ Continue(p, "send", applicationServerKey[p], answer.sub)
           ELSE /\ Return(p, NoSub)
                /\ UNCHANGED << pushSub, created, subscribePosts >>
    /\ UNCHANGED << swVars, extVars >>
    /\ UNCHANGED << notificationSupported, pushSupported, permission,
                    localStorage, keyFetchFailed, subscribeInvoked, stored,
                    entered, subAtStart, afterPrevious >>

\* how the POST to /subscribe may end: an ack, a rejected request, an ack that
\* is no JSON; sendSubscriptionToServer catches both failures (part_000:104-106)
SendAnswers == {"ack", "network-error", "bad-json"}

\* `await sendSubscriptionToServer(subscription)` resumes: the subscription is
\* saved locally and returned (part_000:76-81)
SendResolves(p, answer) ==
    /\ pc[p] = "send"
    /\ answer \in SendAnswers
    /\ localStorage' = JSONstringify(subscription[p])
    /\ stored' = [stored EXCEPT ![p] = TRUE]
    /\ Return(p, subscription[p])
    /\ UNCHANGED << swVars, extVars >>
    /\ UNCHANGED << notificationSupported, pushSupported, permission,
                    pushSub, created, keyFetchFailed, subscribePosts,
                    subscribeInvoked, entered, subAtStart, afterPrevious >>

(***************************************************************************)
(* The worker's activate handler (service-worker.js:73-94).                *)
(***************************************************************************)
\* a faulty variant of the filter below: the current bucket is not spared
IsOldCache_Mutant(cacheName) == cacheName.prefix = "static-cache-"

\* the filter of service-worker.js:80-83
IsOldCache(cacheName) ==
    cacheName.prefix = "static-cache-" /\ cacheName # CurrentCache

\* the activate event: caches.keys() is called
ActivateEvent ==
    /\ activatePc = "installed"
    /\ activatePc' = "keys"
    /\ bucketsBefore' = cacheNames
    /\ UNCHANGED << cacheNames, cacheEntries, toDelete, request, respond, response,
                    networkCalls, putPending, putIssued, missed, swReport, swSubscription,
                    notify, inbox, navPosts >>
    /\ swLog(1)
    /\ UNCHANGED << subVars, exceptLoop, noLog >>

\* caches.keys() resolves: caches.delete() is called for every name the
\* filter keeps, Promise.all waits for them (service-worker.js:78-87)
KeysResolves ==
    /\ activatePc = "keys"
    /\ toDelete' = {cacheName \in cacheNames : IsOldCache(cacheName)}
    /\ activatePc' = "deleting"
    /\ UNCHANGED << cacheNames, cacheEntries, bucketsBefore, request, respond,
                    response, networkCalls, putPending, putIssued, missed, swReport,
                    swSubscription, notify, inbox, navPosts >>
    /\ swLog(Cardinality({cacheName \in cacheNames : IsOldCache(cacheName)}))
    /\ UNCHANGED << subVars, exceptLoop, noLog >>

\* one caches.delete(cacheName) resolves: the bucket and its entries are gone
DeleteResolves(cacheName) ==
    /\ activatePc = "deleting"
    /\ cacheName \in toDelete
    /\ toDelete' = toDelete \ {cacheName}
    /\ cacheNames' = cacheNames \ {cacheName}
    /\ cacheEntries' = {entry \in cacheEntries : entry.bucket # cacheName}
    /\ UNCHANGED << activatePc, bucketsBefore, request, respond, response,
                    networkCalls, putPending, putIssued, missed, swReport, swSubscription,
                    notify, inbox, navPosts >>
    /\ UNCHANGED << subVars, extVars >>

\* Promise.all resolves once every deletion has: self.clients.claim()
\* (service-worker.js:89-92)
ActivateDone ==
    /\ activatePc = "deleting"
    /\ toDelete = {}
    /\ activatePc' = "claimed"
    /\ UNCHANGED << cacheNames, cacheEntries, toDelete, bucketsBefore, request,
                    respond, response, networkCalls, putPending, putIssued, missed, swReport,
                    swSubscription, notify, inbox, navPosts >>
    /\ swLog(1)
    /\ UNCHANGED << subVars, exceptLoop, noLog >>

\* the worker is installed and waits for its activation, with any buckets
\* left in the profile
ActivateInit ==
    /\ PageIdle
    /\ \E others \in SUBSET (StaleStaticCaches \cup ForeignCaches) : Installed(others)
    /\ activatePc = "installed"
    /\ toDelete = {}
    /\ bucketsBefore = {}
    /\ SwIdle

ActivateNext ==
    \/ ActivateEvent
    \/ KeysResolves
    \/ \E cacheName \in StaleStaticCaches \cup ForeignCaches \cup {CurrentCache} :
           DeleteResolves(cacheName)
    \/ ActivateDone

\* what fetch(event.request) may resolve with: a response of any status; 0
\* stands for the rejection of the promise (the network is unreachable)
NetworkAnswers == {0, 200, 404, 500}

(***************************************************************************)
(* The worker's install handler (service-worker.js:51-70).                 *)
(***************************************************************************)
\* the install event: caches.open(`static-cache-${VERSION}`) is called
InstallEvent ==
    /\ installPc = "none"
    /\ installPc' = "open"
    /\ UNCHANGED << preload, skipWaiting >>
    /\ swLog(1)
    /\ UNCHANGED << subVars, swVars, loadVars, codecVars, pushVars, noLog >>

\* caches.open resolves, the bucket exists: cache.addAll requests the five
\* paths (service-worker.js:56-64)
OpenResolves ==
    /\ installPc = "open"
    /\ installPc' = "addAll"
    /\ cacheNames' = cacheNames \cup {CurrentCache}
    /\ preload' = [path \in PrecachedPaths |-> "pending"]
    /\ UNCHANGED skipWaiting
    /\ UNCHANGED << cacheEntries, activatePc, toDelete, bucketsBefore,
                    request, respond, response, networkCalls, putPending, putIssued, missed,
                    swReport, swSubscription, notify, inbox, navPosts >>
    /\ UNCHANGED << subVars, exceptInstall >>

\* one request of addAll is settled: addAll takes a response whose status is
\* in the range 200-299, anything else makes it reject
PreloadResolves(path, status) ==
    /\ preload[path] = "pending"
    /\ preload' = [preload EXCEPT ![path] = IF status = 200 THEN "ok" ELSE "failed"]
    /\ UNCHANGED << installPc, skipWaiting >>
    /\ UNCHANGED << subVars, swVars, exceptInstall >>

\* a faulty variant of the condition below: one response is enough
AllFetched_Mutant(requests) == \E path \in PrecachedPaths : requests[path] = "ok"

\* cache.addAll resolves when every request has got its response
AllFetched(requests) == \A path \in PrecachedPaths : requests[path] = "ok"

\* cache.addAll resolves: the responses are stored, and the next then-callback
\* calls self.skipWaiting() (service-worker.js:65-68); the worker is installed
AddAllResolves ==
    /\ installPc = "addAll"
    /\ AllFetched(preload)
    /\ cacheEntries' =
           cacheEntries \cup
               {[bucket |-> CurrentCache, url |-> URL(OwnHost, path), status |-> 200] :
                    path \in {q \in PrecachedPaths : preload[q] = "ok"}}
    /\ skipWaiting' = TRUE
    /\ installPc' = "installed"
    /\ activatePc' = "installed"
    /\ UNCHANGED preload
    /\ UNCHANGED << cacheNames, toDelete, bucketsBefore,
                    request, respond, response, networkCalls, putPending, putIssued, missed,
                    swReport, swSubscription, notify, inbox, navPosts >>
    /\ swLog(1)
    /\ UNCHANGED << subVars, loadVars, codecVars, pushVars, noLog >>

\* cache.addAll rejects as soon as one request has failed: nothing is stored,
\* the then-callback is skipped and the installation fails
AddAllRejects ==
    /\ installPc = "addAll"
    /\ \E path \in PrecachedPaths : preload[path] = "failed"
    /\ installPc' = "failed"
    /\ UNCHANGED << preload, skipWaiting >>
    /\ UNCHANGED << subVars, swVars, exceptInstall >>

\* the worker is registered for the first time, in a profile that may hold a
\* bucket of an earlier version and a bucket of another script
InstallInit ==
    /\ PageIdle
    /\ \E others \in SUBSET {[prefix |-> "static-cache-", tag |-> "v0"],
                               [prefix |-> "images-", tag |-> "v0"]} :
           NotInstalled(others)
    /\ activatePc = "none"
    /\ toDelete = {}
    /\ bucketsBefore = {}
    /\ SwIdle

InstallNext ==
    \/ InstallEvent
    \/ OpenResolves
    \/ \E path \in PrecachedPaths, status \in NetworkAnswers :
           PreloadResolves(path, status)
    \/ AddAllResolves
    \/ AddAllRejects
    \/ ActivateEvent
    \/ KeysResolves
    \/ \E cacheName \in StaleStaticCaches : DeleteResolves(cacheName)
    \/ ActivateDone

(***************************************************************************)
(* The worker's fetch handler (service-worker.js:97-157) and its           *)
(* logNavigationToServer (service-worker.js:21-48).                        *)
(***************************************************************************)
Request(host, path, method, mode) ==
    [url |-> URL(host, path), method |-> method, mode |-> mode]

\* the navigation to the tracked domain that the reporters see
NavRequests ==
    { Request(OwnHost, << "page2.html" >>, "GET", "navigate") }

\* the requests of the fetch handler: navigations within the worker's scope,
\* a precached and an uncached one; subresources of the own origin and of a
\* third party; an API path; the page's requests to the collection server
FetchRequests ==
    NavRequests \cup
    { Request(OwnHost, << "missing.html" >>, "GET", "navigate"),
      Request(OwnHost, << "style.css" >>, "GET", "no-cors"),
      Request(CdnHost, << "lib.js" >>, "GET", "no-cors"),
      Request(OwnHost, << "api", "data" >>, "GET", "cors"),
      Request(ServerHost, << "vapidPublicKey" >>, "GET", "cors"),
      Request(ServerHost, << "log-navigation" >>, "POST", "cors") }

\* url.hostname.endsWith('vercel.app')
EndsWithVercelApp(host) ==
    Len(host) >= 2 /\ host[Len(host) - 1] = "vercel" /\ host[Len(host)] = "app"

\* the condition of service-worker.js:107-109
IsTrackedNavigation(req) ==
    /\ EndsWithVercelApp(req.url.host)
    /\ req.method = "GET"
    /\ req.mode = "navigate"

\* url.pathname.includes('/api/')
IncludesApi(path) == \E i \in 1..(Len(path) - 1) : path[i] = "api"

\* a faulty variant of the condition below: the '/api/' test is left out
SkipsCache_Mutant(req) ==
    req.method # "GET" \/ req.url.host = ServerHost

\* the condition of service-worker.js:138-140: the network response is
\* returned without being cached
SkipsCache(req) ==
    \/ req.method # "GET"
    \/ IncludesApi(req.url.path)
    \/ req.url.host = ServerHost

\* the subscriptionEndpoint of a report: a push endpoint, or a marker
Endpoint(sub) == [marker |-> "", endpoint |-> sub.endpoint]
Marker(text) == [marker |-> text, endpoint |-> 0]

\* a faulty variant of the choice below: the missing subscription is not handled
SwSubscriptionEndpoint_Mutant(subscriptionData) == Endpoint(subscriptionData)

\* service-worker.js:25
SwSubscriptionEndpoint(subscriptionData) ==
    IF subscriptionData # NoSub THEN Endpoint(subscriptionData)
                               ELSE Marker("not-available-in-sw")

\* part_000:113-119
PageSubscriptionEndpoint ==
    IF localStorage # NoItem
    THEN [marker |-> "", endpoint |-> JSONparseEndpoint(localStorage)]
    ELSE Marker("not-subscribed")

\* a faulty variant of the reporter below: the POST is sent a second time
logNavigationToServer_Mutant(from, c, e) ==
    navPosts' = navPosts (+) SetToBag(
        {[from |-> from, client |-> c, nav |-> e,
          subscriptionEndpoint |-> PageSubscriptionEndpoint,
          subscribed |-> pushSub # NoSub]}) (+) SetToBag(
        {[from |-> from, client |-> c, nav |-> e,
          subscriptionEndpoint |-> PageSubscriptionEndpoint,
          subscribed |-> pushSub # NoSub]})

\* the page's logNavigationToServer up to its first await: the POST to
\* /log-navigation is issued (part_000:110-132); `subscribed` records for the
\* properties whether a subscription existed at that moment
logNavigationToServer(from, c, e) ==
    navPosts' = navPosts (+) SetToBag(
        {[from |-> from, client |-> c, nav |-> e,
          subscriptionEndpoint |-> PageSubscriptionEndpoint,
          subscribed |-> pushSub # NoSub]})

\* url.pathname.includes(text) for the one-segment texts the handler uses
PathnameIncludes(path, segment) == \E i \in 1..Len(path) : path[i] = segment

\* the condition of service-worker.js:102: the requests to the collection
\* server's /log-navigation and /subscribe are not logged
LogsFetch(req) ==
    /\ ~PathnameIncludes(req.url.path, "log-navigation")
    /\ ~PathnameIncludes(req.url.path, "subscribe")

\* the fetch listener, up to event.respondWith(caches.match(event.request)):
\* the event is logged; for a tracked navigation it is logged again,
\* clients.matchAll() and logNavigationToServer are called, the latter up to
\* `await getSubscription()` (service-worker.js:97-129)
HandleFetch(e, req) ==
    /\ activatePc = "claimed"
    /\ respond[e] = "none"
    /\ request' = [request EXCEPT ![e] = req]
    /\ respond' = [respond EXCEPT ![e] = "match"]
    /\ IF IsTrackedNavigation(req)
       THEN /\ notify' = [notify EXCEPT ![e] = "matchAll"]
            /\ swReport' = [swReport EXCEPT ![e] = "getSubscription"]
       ELSE UNCHANGED << notify, swReport >>
    /\ swLog((IF LogsFetch(req) THEN 1 ELSE 0) + (IF IsTrackedNavigation(req) THEN 1 ELSE 0))
    /\ UNCHANGED << cacheNames, cacheEntries, activatePc, toDelete, bucketsBefore,
                    response, networkCalls, putPending, putIssued, missed, swSubscription,
                    inbox, navPosts >>
    /\ UNCHANGED << subVars, exceptLoop, logInbox, reportDone >>

\* the fetch event of a navigation or of a subresource
FetchEvent(e, req) ==
    /\ e \in LoadEvents
    /\ \A d \in LoadEvents : d < e => respond[d] # "none"
    /\ HandleFetch(e, req)
    /\ UNCHANGED origin

\* caches.match(event.request): the stored responses of any bucket for the
\* request's URL; a request that is no GET matches nothing
CacheMatches(req) ==
    IF req.method = "GET"
    THEN {entry \in cacheEntries : entry.bucket \in cacheNames /\ entry.url = req.url}
    ELSE {}

\* a faulty variant of the branch below: the cached response is never used
ServesFromCache_Mutant(matches) == FALSE

\* `if (response)` of service-worker.js:131
ServesFromCache(matches) == matches # {}

\* a faulty variant of the condition below: logNavigationToServer is awaited
\* before event.respondWith is called
RespondWithCalled_Mutant(e) ==
    respond[e] = "match" /\ swReport[e] \notin {"getSubscription", "gotSubscription"}

\* event.respondWith(caches.match(...)) was called in the turn of the event:
\* neither clients.matchAll() nor logNavigationToServer(...) is awaited
\* before it (service-worker.js:114-129)
RespondWithCalled(e) == respond[e] = "match"

\* caches.match resolves: the cached response is returned, or
\* fetch(event.request) is called (service-worker.js:129-135)
CachesMatchResolves(e) ==
    /\ RespondWithCalled(e)
    /\ IF ServesFromCache(CacheMatches(request[e]))
       THEN /\ \E entry \in CacheMatches(request[e]) :
                   response' = [response EXCEPT ![e] = entry.status]
            /\ respond' = [respond EXCEPT ![e] = "cached"]
            /\ UNCHANGED << networkCalls, missed >>
       ELSE /\ networkCalls' = [networkCalls EXCEPT ![e] = @ + 1]
            /\ missed' = [missed EXCEPT ![e] = CacheMatches(request[e]) = {}]
            /\ respond' = [respond EXCEPT ![e] = "network"]
            /\ UNCHANGED response
    /\ UNCHANGED << cacheNames, cacheEntries, activatePc, toDelete, bucketsBefore,
                    request, putPending, putIssued, swReport, swSubscription,
                    notify, inbox, navPosts >>
    /\ UNCHANGED << subVars, extVars >>

\* fetch(event.request) is settled: the response is returned, and a clone of
\* it is handed to caches.open(...).then(cache.put) unless the request skips
\* the cache (service-worker.js:136-154)
NetworkResolves(e, status) ==
    /\ respond[e] = "network"
    /\ status \in NetworkAnswers
    /\ IF status = 0
       THEN /\ respond' = [respond EXCEPT ![e] = "failed"]
            /\ UNCHANGED << response, putPending, putIssued >>
       ELSE /\ respond' = [respond EXCEPT ![e] = "fetched"]
            /\ response' = [response EXCEPT ![e] = status]
            /\ putPending' = [putPending EXCEPT
                                ![e] = IF SkipsCache(request[e]) THEN 0 ELSE status]
            /\ putIssued' = [putIssued EXCEPT ![e] = ~SkipsCache(request[e])]
    /\ UNCHANGED << cacheNames, cacheEntries, activatePc, toDelete, bucketsBefore,
                    request, networkCalls, missed, swReport, swSubscription,
                    notify, inbox, navPosts >>
    /\ UNCHANGED << subVars, extVars >>

\* caches.open(`static-cache-${VERSION}`) and cache.put(event.request,
\* responseClone) complete: the bucket holds the response for the URL
\* (service-worker.js:148-151)
CachePut(e) ==
    /\ putPending[e] # 0
    /\ cacheNames' = cacheNames \cup {CurrentCache}
    /\ cacheEntries' =
           {entry \in cacheEntries :
                ~(entry.bucket = CurrentCache /\ entry.url = request[e].url)}
             \cup {[bucket |-> CurrentCache, url |-> request[e].url,
                    status |-> putPending[e]]}
    /\ putPending' = [putPending EXCEPT ![e] = 0]
    /\ UNCHANGED << activatePc, toDelete, bucketsBefore, request, respond,
                    response, networkCalls, putIssued, missed, swReport, swSubscription,
                    notify, inbox, navPosts >>
    /\ UNCHANGED << subVars, extVars >>

\* self.clients.matchAll() of the navigation branch resolves: a 'navigation'
\* message is posted to every client (service-worker.js:114-122)
SwMatchAllResolves(e) ==
    /\ notify[e] = "matchAll"
    /\ notify' = [notify EXCEPT ![e] = "posted"]
    /\ inbox' = inbox \cup {[client |-> c, nav |-> e] : c \in Clients}
    /\ UNCHANGED << cacheNames, cacheEntries, activatePc, toDelete, bucketsBefore,
                    request, respond, response, networkCalls, putPending, putIssued, missed,
                    swReport, swSubscription, navPosts >>
    /\ UNCHANGED << subVars, extVars >>

\* the push manager reads the registration's subscription for the worker's
\* getSubscription() (service-worker.js:24)
SwPlatformGetSubscription(e) ==
    /\ swReport[e] = "getSubscription"
    /\ swSubscription' = [swSubscription EXCEPT ![e] = pushSub]
    /\ swReport' = [swReport EXCEPT ![e] = "gotSubscription"]
    /\ UNCHANGED << cacheNames, cacheEntries, activatePc, toDelete, bucketsBefore,
                    request, respond, response, networkCalls, putPending, putIssued, missed,
                    notify, inbox, navPosts >>
    /\ UNCHANGED << subVars, extVars >>

\* the worker's logNavigationToServer resumes: the POST to /log-navigation is
\* issued (service-worker.js:24-39)
SwGetSubscriptionResolves(e) ==
    /\ swReport[e] = "gotSubscription"
    /\ navPosts' = navPosts (+) SetToBag(
           {[from |-> "worker", client |-> "worker", nav |-> e,
             subscriptionEndpoint |-> SwSubscriptionEndpoint(swSubscription[e]),
             subscribed |-> pushSub # NoSub]})
    /\ swReport' = [swReport EXCEPT ![e] = "posted"]
    /\ swSubscription' = [swSubscription EXCEPT ![e] = NoSub]
    /\ UNCHANGED << cacheNames, cacheEntries, activatePc, toDelete, bucketsBefore,
                    request, respond, response, networkCalls, putPending, putIssued, missed,
                    notify, inbox >>
    /\ UNCHANGED << subVars, extVars >>

(***************************************************************************)
(* The page's navigation detection (part_000:180-187, 211-225).            *)
(***************************************************************************)
\* a faulty variant of the condition below: every message is reported
MessageIsReported_Mutant(type, hasUrl) == TRUE

\* `event.data.type === 'navigation' && event.data.url` (part_000:184)
MessageIsReported(type, hasUrl) == type = "navigation" /\ hasUrl

\* the page's message listener for a 'navigation' message, whose url is the
\* URL of the request: it is reported (part_000:180-187)
PageMessage(c, e) ==
    /\ [client |-> c, nav |-> e] \in inbox
    /\ inbox' = inbox \ {[client |-> c, nav |-> e]}
    /\ IF MessageIsReported("navigation", TRUE)
       THEN logNavigationToServer("message", c, e)
       ELSE UNCHANGED navPosts
    /\ UNCHANGED << cacheNames, cacheEntries, activatePc, toDelete, bucketsBefore,
                    request, respond, response, networkCalls, putPending, putIssued, missed,
                    swReport, swSubscription, notify >>
    /\ UNCHANGED << subVars, extVars >>

\* the click listener: a click on a link whose href includes 'vercel.app' is
\* reported (part_000:211-225); the click starts the navigation e, which the
\* worker has not seen yet
PageClick(c, e) ==
    /\ respond[e] = "none"
    /\ \A d \in LoadEvents : d < e => respond[d] # "none"
    /\ ~\E post \in BagToSet(navPosts) : post.from = "click" /\ post.nav = e
    /\ logNavigationToServer("click", c, e)
    /\ UNCHANGED << cacheNames, cacheEntries, activatePc, toDelete, bucketsBefore,
                    request, respond, response, networkCalls, putPending, putIssued, missed,
                    swReport, swSubscription, notify, inbox >>
    /\ UNCHANGED << subVars, extVars >>

(***************************************************************************)
(* The end of the reports (part_000:134-138, service-worker.js:41-47), the *)
(* delivery of the worker's log (service-worker.js:10-17), and the page's  *)
(* POSTs as the worker's fetch handler sees them.                          *)
(***************************************************************************)
\* the page's POSTs, as requests of a controlled client
LogNavigationRequest == Request(ServerHost, << "log-navigation" >>, "POST", "cors")
SubscribeRequest == Request(ServerHost, << "subscribe" >>, "POST", "cors")

\* what an event records of the POST it carries
NavPost(post) ==
    [kind |-> "log-navigation", from |-> post.from, client |-> post.client, nav |-> post.nav]
SubscribePost(p) ==
    [kind |-> "subscribe", from |-> "click", client |-> "page", nav |-> p]

\* the fetch event that carries a POST of the page: one for the POST to
\* /subscribe, one for the report of a click, one for a report that belongs
\* to no navigation, one per client for the report of a message
PostEvent(carried) ==
    Cardinality(LoadEvents) +
        (IF carried.kind = "subscribe" THEN 1
         ELSE IF carried.from = "click" THEN 2
         ELSE IF carried.nav = 0 THEN 3
         ELSE IF carried.client = "page" THEN 4 ELSE 5)

\* a faulty variant of the catch block below: the POST is sent once more
CatchReportError_Mutant(post) == SetToBag({post})

\* the POSTs to /log-navigation the catch block of a reporter issues: it
\* logs the error, and the worker's returns it (part_000:136-138,
\* service-worker.js:44-47)
CatchReportError(post) == EmptyBag

\* a POST to /log-navigation of the page reaches the worker's fetch handler
PagePostIntercepted(e, post) ==
    /\ e = PostEvent(NavPost(post))
    /\ post \in BagToSet(navPosts)
    /\ post.from # "worker"
    /\ ~\E d \in Events : origin[d] = NavPost(post)
    /\ HandleFetch(e, LogNavigationRequest)
    /\ origin' = [origin EXCEPT ![e] = NavPost(post)]

\* the POST to /subscribe of call p reaches the worker's fetch handler
SubscribePostIntercepted(e, p) ==
    /\ e = PostEvent(SubscribePost(p))
    /\ pc[p] = "send"
    /\ ~\E d \in Events : origin[d] = SubscribePost(p)
    /\ HandleFetch(e, SubscribeRequest)
    /\ origin' = [origin EXCEPT ![e] = SubscribePost(p)]

\* the page's logNavigationToServer resumes when the worker has answered its
\* POST: the ack is parsed and logged, or the catch block logs the error
\* (part_000:121-138); log() writes to the page and the console only
PageReportSettles(e, parsable) ==
    /\ origin[e].kind = "log-navigation"
    /\ reportDone[e] = "none"
    /\ respond[e] \in {"fetched", "failed"}
    /\ LET post == CHOOSE sent \in BagToSet(navPosts) : NavPost(sent) = origin[e]
       IN  IF respond[e] = "fetched" /\ parsable
           THEN /\ reportDone' = [reportDone EXCEPT ![e] = "logged"]
                /\ UNCHANGED navPosts
           ELSE /\ reportDone' = [reportDone EXCEPT ![e] = "error"]
                /\ navPosts' = navPosts (+) CatchReportError(post)
    /\ UNCHANGED << cacheNames, cacheEntries, activatePc, toDelete, bucketsBefore,
                    request, respond, response, networkCalls, putPending, putIssued, missed,
                    swReport, swSubscription, notify, inbox >>
    /\ UNCHANGED << subVars, exceptLoop, swLogs, logInbox, origin >>

\* `await sendSubscriptionToServer(subscription)` resumes when the worker has
\* answered the POST to /subscribe
SendSettles(e, p) ==
    /\ origin[e] = SubscribePost(p)
    /\ respond[e] \in {"fetched", "failed"}
    /\ \E answer \in SendAnswers :
           /\ answer = "network-error" <=> respond[e] = "failed"
           /\ SendResolves(p, answer)

\* the worker's logNavigationToServer resumes when its POST is settled: the
\* ack is parsed and logged, or the catch block logs the error; either way
\* swLog is called once (service-worker.js:27-47)
SwReportSettles(e, answer) ==
    /\ swReport[e] = "posted"
    /\ answer \in SendAnswers
    /\ LET post == CHOOSE sent \in BagToSet(navPosts) :
                       sent.from = "worker" /\ sent.nav = e
       IN  IF answer = "ack"
           THEN /\ swReport' = [swReport EXCEPT ![e] = "logged"]
                /\ UNCHANGED navPosts
           ELSE /\ swReport' = [swReport EXCEPT ![e] = "error"]
                /\ navPosts' = navPosts (+) CatchReportError(post)
    /\ swLog(1)
    /\ UNCHANGED << cacheNames, cacheEntries, activatePc, toDelete, bucketsBefore,
                    request, respond, response, networkCalls, putPending, putIssued, missed,
                    swSubscription, notify, inbox >>
    /\ UNCHANGED << subVars, exceptLoop, noLog >>

\* the clients.matchAll() of one swLog call resolves: a 'log' message is
\* posted to every client (service-worker.js:10-17)
SwLogResolves ==
    /\ swLogs > 0
    /\ swLogs' = swLogs - 1
    /\ logInbox' = [c \in Clients |-> logInbox[c] + 1]
    /\ UNCHANGED << origin, reportDone >>
    /\ UNCHANGED << subVars, swVars, exceptLoop >>

\* the page's message listener for a 'log' message, which has a type and a
\* message: it is written to the page's log (part_000:180-187)
PageLogMessage(c) ==
    /\ logInbox[c] > 0
    /\ logInbox' = [logInbox EXCEPT ![c] = @ - 1]
    /\ IF MessageIsReported("log", FALSE)
       THEN logNavigationToServer("message", c, 0)
       ELSE UNCHANGED navPosts
    /\ UNCHANGED << cacheNames, cacheEntries, activatePc, toDelete, bucketsBefore,
                    request, respond, response, networkCalls, putPending, putIssued, missed,
                    swReport, swSubscription, notify, inbox >>
    /\ UNCHANGED << subVars, exceptLoop, swLogs, origin, reportDone >>

(***************************************************************************)
(* The page load (part_000:142-191) and the page's end (part_000:229-231). *)
(***************************************************************************)
\* DOMContentLoaded: the load is reported, the worker is registered where
\* service workers exist, and the listeners are attached (part_000:142-226)
DOMContentLoaded ==
    /\ ~loaded
    /\ loads < MaxLoads
    /\ loaded' = TRUE
    /\ loads' = loads + 1
    /\ logNavigationToServer("load", "page", 0)
    /\ regPc' = IF pushSupported THEN "registering" ELSE "unsupported"
    /\ UNCHANGED << regSubscription, exceptLoad >>
    /\ UNCHANGED << cacheNames, cacheEntries, activatePc, toDelete, bucketsBefore,
                    request, respond, response, networkCalls, putPending, putIssued, missed,
                    swReport, swSubscription, notify, inbox >>
    /\ UNCHANGED subVars

\* navigator.serviceWorker.register(...) is settled: its then-callback calls
\* registration.pushManager.getSubscription(), its catch-callback only logs
\* (part_000:155-177)
RegisterResolves(ok) ==
    /\ regPc = "registering"
    /\ regPc' = IF ok THEN "getSubscription" ELSE "failed"
    /\ UNCHANGED << loaded, loads, regSubscription, exceptLoad >>
    /\ UNCHANGED << subVars, swVars >>

\* the push manager reads the registration's subscription for the
\* getSubscription() of part_000:166
RegisterGetSubscription ==
    /\ regPc = "getSubscription"
    /\ regSubscription' = pushSub
    /\ regPc' = "gotSubscription"
    /\ UNCHANGED << loaded, loads, exceptLoad >>
    /\ UNCHANGED << subVars, swVars >>

\* the then-callback of part_000:167-172: an existing subscription is written
\* to local storage
RegisterGetSubscriptionResolves ==
    /\ regPc = "gotSubscription"
    /\ regPc' = "done"
    /\ localStorage' = IF regSubscription # NoSub THEN JSONstringify(regSubscription)
                                                 ELSE localStorage
    /\ UNCHANGED << loaded, loads, regSubscription, exceptLoad >>
    /\ UNCHANGED swVars
    /\ UNCHANGED << notificationSupported, pushSupported, permission, pushSub,
                    created, pc, applicationServerKey, keyFetchFailed,
                    subscription, returned, subscribePosts, subscribeInvoked, stored,
                    entered, subAtStart, afterPrevious >>

\* the page is closed or reloaded (beforeunload only logs, part_000:229-231):
\* its pending promise chains are gone with it, what the profile holds stays
PageUnload ==
    /\ loaded
    /\ loaded' = FALSE
    /\ regPc' = "none"
    /\ regSubscription' = NoSub
    /\ pc' = [p \in Calls |-> IF pc[p] = "idle" THEN "idle" ELSE "done"]
    /\ applicationServerKey' = [p \in Calls |-> << >>]
    /\ subscription' = [p \in Calls |-> NoSub]
    /\ UNCHANGED << loads, exceptLoad >>
    /\ UNCHANGED swVars
    /\ UNCHANGED << notificationSupported, pushSupported, permission, pushSub,
                    created, localStorage, keyFetchFailed, returned,
                    subscribePosts, subscribeInvoked, stored, entered, subAtStart,
                    afterPrevious >>

\* a new profile in any browser, the page not loaded yet; where service
\* workers exist the worker is installed and waits for its activation
PageInit ==
    /\ notificationSupported \in BOOLEAN
    /\ pushSupported \in BOOLEAN
    /\ ProfileFresh
    /\ CodecIdle
    /\ loaded = FALSE
    /\ loads = 0
    /\ regPc = "none"
    /\ regSubscription = NoSub
    /\ IF pushSupported
       THEN Installed({}) /\ activatePc = "installed"
       ELSE NotInstalled({}) /\ activatePc = "none"
    /\ toDelete = {}
    /\ bucketsBefore = {}
    /\ SwIdle

\* the worker is active, nothing is cached beyond the precached paths and
\* what another script of the origin may have stored
FetchInit ==
    /\ PageIdle
    /\ \E others \in SUBSET {[prefix |-> "images-", tag |-> "v0"]} : SwActivated(others)

FetchNext ==
    \/ \E e \in Fetches, req \in FetchRequests : FetchEvent(e, req)
    \/ \E e \in Events : CachesMatchResolves(e)
    \/ \E e \in Events, status \in NetworkAnswers : NetworkResolves(e, status)
    \/ \E e \in Events : CachePut(e)
    \/ \E e \in Events : SwPlatformGetSubscription(e)
    \/ \E e \in Events : SwGetSubscriptionResolves(e)

\* the fetch handler with the notification of the clients; the cache and the
\* network answer every request, while nothing is assumed of the push manager
\* and of the clients' lookup, which may never answer
LiveFetches == {e \in Fetches : e <= 2}

\* a precached and an uncached navigation to the tracked domain, and a
\* subresource
LiveRequests ==
    NavRequests \cup
    { Request(OwnHost, << "missing.html" >>, "GET", "navigate"),
      Request(OwnHost, << "style.css" >>, "GET", "no-cors") }

FetchLiveNext ==
    \/ \E e \in LiveFetches, req \in LiveRequests : FetchEvent(e, req)
    \/ \E e \in Events : CachesMatchResolves(e)
    \/ \E e \in Events, status \in NetworkAnswers : NetworkResolves(e, status)
    \/ \E e \in Events : CachePut(e)
    \/ \E e \in Events : SwMatchAllResolves(e)
    \/ \E e \in Events : SwPlatformGetSubscription(e)
    \/ \E e \in Events : SwGetSubscriptionResolves(e)

\* the one call of the permission button that runs beside the navigations;
\* the links are clicked in the client "page", the worker's messages go to
\* every client
NavCalls == {1}

\* the worker is active and controls the clients
NavInit ==
    /\ PageIdle
    /\ SwActivated({})

NavNext ==
    \/ \E p \in NavCalls : ClickPermissionButton(p)
    \/ \E p \in NavCalls, perm \in {"default", "granted", "denied"} :
           PermissionResolves(p, perm)
    \/ \E p \in NavCalls : ReadyResolves(p)
    \/ \E p \in NavCalls, answer \in KeyAnswers : KeyFetchResolves(p, answer)
    \/ \E p \in NavCalls : PlatformGetSubscription(p)
    \/ \E p \in NavCalls : GetSubscriptionResolves(p)
    \/ \E p \in NavCalls : SubscribeResolves(p)
    \/ \E p \in NavCalls, answer \in SendAnswers : SendResolves(p, answer)
    \/ \E e \in Navs : PageClick("page", e)
    \/ \E e \in Navs, req \in NavRequests : FetchEvent(e, req)
    \/ \E e \in Navs : SwMatchAllResolves(e)
    \/ \E c \in Clients, e \in Navs : PageMessage(c, e)
    \/ \E e \in Navs : SwPlatformGetSubscription(e)
    \/ \E e \in Navs : SwGetSubscriptionResolves(e)

\* the one navigation whose consequences are followed to their end
LoopNavs == {1}

\* the worker is active and controls the clients
ReportInit ==
    /\ PageIdle
    /\ SwActivated({})

\* a click on a link and the navigation it starts, with both reporters up to
\* their end
ReportNext ==
    \/ \E e \in LoopNavs : PageClick("page", e)
    \/ \E e \in LoopNavs, req \in NavRequests : FetchEvent(e, req)
    \/ \E e \in LoopNavs : SwMatchAllResolves(e)
    \/ \E c \in Clients, e \in LoopNavs : PageMessage(c, e)
    \/ \E e \in LoopNavs : SwPlatformGetSubscription(e)
    \/ \E e \in LoopNavs : SwGetSubscriptionResolves(e)
    \/ \E e \in LoopNavs, answer \in SendAnswers : SwReportSettles(e, answer)
    \/ \E e \in PostEvents, post \in BagToSet(navPosts) : PagePostIntercepted(e, post)
    \/ \E e \in Events : CachesMatchResolves(e)
    \/ \E e \in Events, status \in NetworkAnswers : NetworkResolves(e, status)
    \/ \E e \in PostEvents, parsable \in BOOLEAN : PageReportSettles(e, parsable)

\* how the network answers a POST of the page: it fails, or with a response
LoopAnswers == {0, 200}

\* the one call of the permission button whose POST to /subscribe is followed
LoopCalls == {1}

\* the permission was granted to the first click on the permission button,
\* whose subscribeUserToPush has created the subscription with the hardcoded
\* key and waits for the answer to its POST to /subscribe (part_000:76)
PageSending ==
    LET key == urlBase64ToUint8Array(HardcodedKey).data
        sub == [endpoint |-> 1, key |-> key]
    IN  /\ permission = "granted"
        /\ pushSub = sub
        /\ created = 1
        /\ localStorage = NoItem
        /\ pc = [p \in Calls |-> IF p = 1 THEN "send" ELSE "idle"]
        /\ applicationServerKey = [p \in Calls |-> IF p = 1 THEN key ELSE << >>]
        /\ keyFetchFailed = [p \in Calls |-> FALSE]
        /\ subscription = [p \in Calls |-> IF p = 1 THEN sub ELSE NoSub]
        /\ returned = [p \in Calls |-> NoSub]
        /\ subscribePosts = {[call |-> 1, endpoint |-> 1]}
        /\ subscribeInvoked = [p \in Calls |-> IF p = 1 THEN "fresh" ELSE "no"]
        /\ stored = [p \in Calls |-> FALSE]
        /\ entered = [p \in Calls |-> p = 1]
        /\ subAtStart = [p \in Calls |-> FALSE]
        /\ afterPrevious = [p \in Calls |-> FALSE]

\* the worker is active and controls the clients
LoopInit ==
    /\ notificationSupported = TRUE
    /\ pushSupported = TRUE
    /\ PageSending
    /\ PageLoaded
    /\ CodecIdle
    /\ SwActivated({})

LoopNext ==
    \/ \E e \in LoopNavs, req \in NavRequests : FetchEvent(e, req)
    \/ \E e \in LoopNavs : SwMatchAllResolves(e)
    \/ \E c \in Clients, e \in LoopNavs : PageMessage(c, e)
    \/ \E e \in LoopNavs : SwPlatformGetSubscription(e)
    \/ \E e \in LoopNavs : SwGetSubscriptionResolves(e)
    \/ \E e \in LoopNavs, answer \in SendAnswers : SwReportSettles(e, answer)
    \/ \E e \in PostEvents, post \in BagToSet(navPosts) : PagePostIntercepted(e, post)
    \/ \E e \in PostEvents, p \in LoopCalls : SubscribePostIntercepted(e, p)
    \/ \E e \in PostEvents, p \in LoopCalls : SendSettles(e, p)
    \/ \E e \in Events : CachesMatchResolves(e)
    \/ \E e \in Events, status \in LoopAnswers : NetworkResolves(e, status)
    \/ \E e \in PostEvents, parsable \in BOOLEAN : PageReportSettles(e, parsable)
    \/ SwLogResolves
    \/ \E c \in Clients : PageLogMessage(c)

SubNext ==
    \/ ActivateEvent
    \/ KeysResolves
    \/ ActivateDone
    \/ \E p \in Calls : ClickPermissionButton(p)
    \/ \E p \in Calls, perm \in {"default", "granted", "denied"} :
           PermissionResolves(p, perm)
    \/ \E p \in Calls : ReadyResolves(p)
    \/ \E p \in Calls, answer \in KeyAnswers : KeyFetchResolves(p, answer)
    \/ \E p \in Calls : PlatformGetSubscription(p)
    \/ \E p \in Calls : GetSubscriptionResolves(p)
    \/ \E p \in Calls : SubscribeResolves(p)
    \/ \E p \in Calls, answer \in SendAnswers : SendResolves(p, answer)

(***************************************************************************)
(* The worker's push handler (service-worker.js:160-189) and its           *)
(* notificationclick handler (service-worker.js:192-219).                  *)
(***************************************************************************)
\* the page a push message may point to, as an absolute URL
Page2Target == Target("absolute", URL(OwnHost, << "page2.html" >>))

\* the JSON objects a push message may carry: none of the fields, all of
\* them, the title alone, the url alone
PushObjects ==
    { NoNotification,
      Notification("Hello", "text", "/i.png", "t1", Page2Target),
      Notification("Hello", "", "", "", NoTarget),
      Notification("", "", "", "", Page2Target) }

PushPayloads ==
    { PushData(kind, NoNotification) : kind \in {"absent", "invalid", "null", "number"} }
        \cup { PushData("object", fields) : fields \in PushObjects }

\* `let notificationData = {}` and the try block of service-worker.js:163-172:
\* event.data.json() is JSON.parse of the message's text, its error is caught
NotificationData(data) ==
    IF data.kind \in {"absent", "invalid"}
    THEN PushData("object", NoNotification)
    ELSE data

\* reading a property of notificationData throws a TypeError when
\* notificationData is null; a number has no such property
ReadThrows(value) == value.kind = "null"

\* `notificationData.x || d` for a value whose properties can be read
OrDefault(field, default) == IF field # "" THEN field ELSE default

FieldsOf(value) == IF value.kind = "object" THEN value.fields ELSE NoNotification

\* the push event (service-worker.js:160-189): showNotification is called with
\* the title and options of service-worker.js:174-184
PushEvent(k, data) ==
    /\ activatePc = "claimed"
    /\ pushResult[k] = "none"
    /\ \A j \in Pushes : j < k => pushResult[j] # "none"
    /\ pushData' = [pushData EXCEPT ![k] = data]
    /\ LET notificationData == NotificationData(data)
           fields == FieldsOf(notificationData)
       IN  IF ReadThrows(notificationData)
           THEN /\ pushResult' = [pushResult EXCEPT ![k] = "threw"]
                /\ UNCHANGED << notification, showCalls >>
           ELSE /\ pushResult' = [pushResult EXCEPT ![k] = "shown"]
                /\ showCalls' = [showCalls EXCEPT ![k] = @ + 1]
                /\ notification' = [notification EXCEPT ![k] =
                       Notification(
                           OrDefault(fields.title, "Navigation Tracker"),
                           OrDefault(fields.body, "A new event was detected."),
                           OrDefault(fields.icon, "/icon-192x192.png"),
                           OrDefault(fields.tag, "default"),
                           IF fields.url # NoTarget
                           THEN fields.url
                           ELSE Target("relative", URL(OwnHost, << >>)))]
    /\ UNCHANGED << clickPc, closed, focused, opened, matched, windows >>
    /\ swLog(IF data.kind = "absent" THEN 1 ELSE 2)
    /\ UNCHANGED << subVars, swVars, loadVars, codecVars, installVars, noLog >>

\* the click on notification k (service-worker.js:192-205): the notification
\* is closed and clients.matchAll is called
NotificationClick(k) ==
    /\ pushResult[k] = "shown"
    /\ clickPc[k] = "none"
    /\ closed' = [closed EXCEPT ![k] = TRUE]
    /\ clickPc' = [clickPc EXCEPT ![k] = "matchAll"]
    /\ UNCHANGED << pushData, pushResult, notification, showCalls, focused, opened,
                    matched, windows >>
    /\ swLog(1)
    /\ UNCHANGED << subVars, swVars, loadVars, codecVars, installVars, noLog >>

\* the URL the platform resolves the target to (against the worker's location)
Resolve(target) == target.url

\* `client.url === urlToOpen`: client.url is the absolute URL of the window, the
\* two strings are the same only when urlToOpen is that absolute URL
SameString(clientUrl, urlToOpen) ==
    urlToOpen.form = "absolute" /\ urlToOpen.url = clientUrl

\* clients.matchAll resolves (service-worker.js:206-217): the first client
\* whose url is urlToOpen is focused, with none of them a window is opened
ClickMatchAllResolves(k) ==
    /\ clickPc[k] = "matchAll"
    /\ clickPc' = [clickPc EXCEPT ![k] = "done"]
    /\ LET urlToOpen == notification[k].url
           clients == windows
       IN  /\ matched' = [matched EXCEPT
                             ![k] = \E client \in clients : client = Resolve(urlToOpen)]
           /\ IF \E client \in clients : SameString(client, urlToOpen)
              THEN /\ focused' = [focused EXCEPT
                          ![k] = CHOOSE client \in clients : SameString(client, urlToOpen)]
                   /\ UNCHANGED << opened, windows >>
              ELSE /\ opened' = [opened EXCEPT ![k] = urlToOpen]
                   /\ windows' = windows \cup {Resolve(urlToOpen)}
                   /\ UNCHANGED focused
    /\ UNCHANGED << pushData, pushResult, notification, showCalls, closed >>
    /\ UNCHANGED << subVars, swVars, exceptPush >>

\* the windows of the origin that may be open
WindowUrls == {URL(OwnHost, << >>), URL(OwnHost, << "page2.html" >>)}

\* the worker is active, any of the windows are open
PushInit ==
    /\ PageIdle
    /\ Installed({})
    /\ activatePc = "claimed"
    /\ toDelete = {}
    /\ bucketsBefore = cacheNames
    /\ FetchIdle
    /\ PushIdle
    /\ LoopIdle
    /\ windows \in SUBSET WindowUrls

PushNext ==
    \/ \E k \in Pushes, data \in PushPayloads : PushEvent(k, data)
    \/ \E k \in Pushes : NotificationClick(k)
    \/ \E k \in Pushes : ClickMatchAllResolves(k)

(***************************************************************************)
(* One conversion of a string by urlBase64ToUint8Array (part_000:15-28).   *)
(***************************************************************************)
\* the characters of the strings converted: base64url characters of value 0,
\* 16, 17, 62 and 63, and the padding character
CodecChars == {"A", "Q", "R", "-", "_", "="}

RECURSIVE StringsOfLen(_)
StringsOfLen(n) ==
    IF n = 0 THEN {<< >>}
    ELSE {Append(str, c) : str \in StringsOfLen(n - 1), c \in CodecChars}

CodecInputs == UNION {StringsOfLen(n) : n \in 0..MaxLen}

\* urlBase64ToUint8Array(base64String) is called
urlBase64ToUint8ArrayCall ==
    /\ codecPc = "called"
    /\ outputArray' = urlBase64ToUint8Array(base64Input)
    /\ codecPc' = "returned"
    /\ UNCHANGED << base64Input, reencoded >>
    /\ UNCHANGED << subVars, swVars, exceptCodec >>

\* the bytes in base64, 6 bits a character, a last group of one or two bytes
\* filled up with zero bits, no padding characters
RECURSIVE EncodeGroups(_)
EncodeGroups(bytes) ==
    IF Len(bytes) = 0 THEN << >>
    ELSE IF Len(bytes) >= 3
    THEN LET n == (bytes[1] * 256 + bytes[2]) * 256 + bytes[3]
         IN  << B64Chars[n \div 262144 + 1], B64Chars[((n \div 4096) % 64) + 1],
                B64Chars[((n \div 64) % 64) + 1], B64Chars[(n % 64) + 1] >>
                 \o EncodeGroups(SubSeq(bytes, 4, Len(bytes)))
    ELSE IF Len(bytes) = 2
    THEN LET n == (bytes[1] * 256 + bytes[2]) * 4
         IN  << B64Chars[n \div 4096 + 1], B64Chars[((n \div 64) % 64) + 1],
                B64Chars[(n % 64) + 1] >>
    ELSE LET n == bytes[1] * 16
         IN  << B64Chars[n \div 64 + 1], B64Chars[(n % 64) + 1] >>

\* the base64url alphabet: '-' for '+', '_' for '/'
UrlAlphabet(str) ==
    [i \in 1..Len(str) |->
        IF str[i] = "+" THEN "-" ELSE IF str[i] = "/" THEN "_" ELSE str[i]]

\* the bytes returned are written back in the alphabet of the argument
Reencode ==
    /\ codecPc = "returned"
    /\ outputArray.ok
    /\ reencoded' = UrlAlphabet(EncodeGroups(outputArray.data))
    /\ codecPc' = "reencoded"
    /\ UNCHANGED << base64Input, outputArray >>
    /\ UNCHANGED << subVars, swVars, exceptCodec >>

\* any string of the characters above, of any length up to MaxLen
CodecInit ==
    /\ base64Input \in CodecInputs
    /\ codecPc = "called"
    /\ outputArray = [ok |-> FALSE, data |-> << >>]
    /\ reencoded = << >>
    /\ notificationSupported = TRUE
    /\ pushSupported = TRUE
    /\ ProfileFresh
    /\ PageLoaded
    /\ SwActivated({})

CodecNext ==
    \/ urlBase64ToUint8ArrayCall
    \/ Reencode

\* the calls of the permission button's handler that run beside the page
\* loads: two of them, so that they race with each other and with the load
PageCalls == {p \in Calls : p <= 2}

PageNext ==
    \/ DOMContentLoaded
    \/ \E ok \in BOOLEAN : RegisterResolves(ok)
    \/ RegisterGetSubscription
    \/ RegisterGetSubscriptionResolves
    \/ PageUnload
    \/ ActivateEvent
    \/ KeysResolves
    \/ ActivateDone
    \/ \E p \in PageCalls : ClickPermissionButton(p)
    \/ \E p \in PageCalls, perm \in {"default", "granted", "denied"} :
           PermissionResolves(p, perm)
    \/ \E p \in PageCalls : ReadyResolves(p)
    \/ \E p \in PageCalls, answer \in KeyAnswers : KeyFetchResolves(p, answer)
    \/ \E p \in PageCalls : PlatformGetSubscription(p)
    \/ \E p \in PageCalls : GetSubscriptionResolves(p)
    \/ \E p \in PageCalls : SubscribeResolves(p)
    \/ \E p \in PageCalls, answer \in SendAnswers : SendResolves(p, answer)

vars == << subVars, swVars, extVars >>

\* the subscription lifecycle where every promise of the platform and the
\* user's answer are settled in the end, and so are the requests to the
\* server except the POST to /subscribe: no fetch of the page has a timeout,
\* a request the server never answers stays pending
SpecSubLive ==
    /\ SubInit
    /\ [][SubNext]_vars
    /\ WF_vars(ActivateEvent) /\ WF_vars(KeysResolves) /\ WF_vars(ActivateDone)
    /\ \A p \in Calls :
           /\ WF_vars(\E perm \in {"default", "granted", "denied"} :
                          PermissionResolves(p, perm))
           /\ WF_vars(ReadyResolves(p))
           /\ WF_vars(\E answer \in KeyAnswers : KeyFetchResolves(p, answer))
           /\ WF_vars(PlatformGetSubscription(p))
           /\ WF_vars(GetSubscriptionResolves(p))
           /\ WF_vars(SubscribeResolves(p))

\* the fetch handler when caches.match and fetch(event.request) are always
\* settled, and the steps of the reporter and of the notification may hang
SpecFetchLive ==
    /\ FetchInit
    /\ [][FetchLiveNext]_vars
    /\ \A e \in LiveFetches :
           /\ WF_vars(CachesMatchResolves(e))
           /\ WF_vars(\E status \in NetworkAnswers : NetworkResolves(e, status))

\* one navigation and its reports, up to the end of the reporters
SpecReport == ReportInit /\ [][ReportNext]_vars

\* one navigation, with everything the page and the worker do because of it
SpecLoop == LoopInit /\ [][LoopNext]_vars

\* the installation and the activation of the worker
SpecInstall == InstallInit /\ [][InstallNext]_vars

\* push events and clicks on the notifications they showed
SpecPush == PushInit /\ [][PushNext]_vars

\* conversions of strings by urlBase64ToUint8Array
SpecCodec == CodecInit /\ [][CodecNext]_vars

\* page loads, registrations and calls of the permission button's handler
SpecPage == PageInit /\ [][PageNext]_vars

\* the subscription lifecycle of the page
SpecSub == SubInit /\ [][SubNext]_vars

\* the activation of the worker
SpecActivate == ActivateInit /\ [][ActivateNext]_vars

\* the fetch handler of the active worker
SpecFetch == FetchInit /\ [][FetchNext]_vars

\* navigations to the tracked domain, seen by the page and by the worker
SpecNav == NavInit /\ [][NavNext]_vars


(***************************************************************************)
(* Properties of the subscription lifecycle (SpecSub).                     *)
(***************************************************************************)
\* the call has issued its POST to /subscribe for the subscription `sub`
Posted(p, sub) == [call |-> p, endpoint |-> sub.endpoint] \in subscribePosts

\* the call has issued some POST to /subscribe
PostedAny(p) == \E post \in subscribePosts : post.call = p

\* C1: in every interleaving of subscribeUserToPush invocations,
\* pushManager.subscribe is never invoked when a subscription already exists.
\* The check (getSubscription) and the act (subscribe) of part_000:61-70 are
\* separated by an await: two calls both read "no subscription", the first
\* one's subscribe() creates the subscription, and the second one still
\* invokes subscribe().
C1_SubscribeNeverInvokedWhenSubscribed ==
    \A p \in Calls : subscribeInvoked[p] # "exists"

\* C4, as claimed: a call entered once a subscription exists creates no
\* subscription, writes nothing to local storage and issues no POST to /subscribe
C4_RepeatedCallIsNoOp ==
    \A p \in Calls :
        subAtStart[p] => subscribeInvoked[p] = "no" /\ ~stored[p] /\ ~PostedAny(p)

\* C4, amended: a call entered once a subscription exists never invokes
\* subscribe() (it creates nothing), but it is no no-op: when it returns a
\* subscription, it is the existing one, and the call has issued a POST to
\* /subscribe for it and has written it to local storage; it returns
\* undefined only when the server's key could not be converted
C4_RepeatedCallCreatesNothing ==
    \A p \in Calls :
        subAtStart[p] =>
            /\ subscribeInvoked[p] = "no"
            /\ created = 1
            /\ pc[p] = "send" => Posted(p, pushSub)
            /\ pc[p] = "done" /\ returned[p] # NoSub =>
                   /\ returned[p] = pushSub
                   /\ Posted(p, pushSub)
                   /\ stored[p]
                   /\ localStorage = JSONstringify(pushSub)
            /\ pc[p] = "done" /\ keyFetchFailed[p] => returned[p] # NoSub

\* a call entered with a subscription in place has finished and has written
\* local storage
C4_Witness ==
    \E p \in Calls : subAtStart[p] /\ pc[p] = "done" /\ stored[p] /\ PostedAny(p)

\* C5: two successive calls of subscribeUserToPush (each entered with the
\* permission granted, the second after the first has returned) both return a
\* subscription, and the two have the same endpoint, whatever GET
\* /vapidPublicKey answered. The key is converted before the existing
\* subscription is looked up (part_000:58-61), so a key atob rejects makes
\* the call return undefined.
C5_SuccessiveCallsSameEndpoint ==
    \A p \in Calls :
        p > 1 /\ entered[p - 1] /\ entered[p] /\ afterPrevious[p] /\ pc[p] = "done" =>
            /\ returned[p - 1] # NoSub
            /\ returned[p] # NoSub
            /\ returned[p].endpoint = returned[p - 1].endpoint

\* C6: a call whose GET /vapidPublicKey failed goes on with the hardcoded key
\* and ends with a subscription that is returned, reported and persisted.
\* It fails through the race of C1: a concurrent call subscribes with the
\* server's key first, and subscribe() with the hardcoded key is rejected.
C6_FallbackStillSubscribes ==
    \A p \in Calls :
        keyFetchFailed[p] =>
            /\ pc[p] \in {"getSubscription", "gotSubscription", "subscribe", "send"} =>
                   applicationServerKey[p] = urlBase64ToUint8Array(HardcodedKey).data
            /\ pc[p] = "done" =>
                   /\ returned[p] # NoSub
                   /\ Posted(p, returned[p])
                   /\ stored[p]


(***************************************************************************)
(* Properties of the navigation reports (SpecNav).                         *)
(***************************************************************************)
\* the number of POSTs to /log-navigation for navigation e that satisfy Sent
ReportCount(e, Sent(_)) ==
    BagCardinality([post \in {x \in BagToSet(navPosts) : x.nav = e /\ Sent(x)}
                        |-> navPosts[post]])

ByWorker(post) == post.from = "worker"
ByClick(post) == post.from = "click"
ByAnyone(post) == TRUE

\* C2, as claimed: every report POSTed while no push subscription exists
\* carries the marker "not-subscribed", from the page and from the worker
C2_NotSubscribedMarker ==
    \A post \in BagToSet(navPosts) :
        ~post.subscribed => post.subscriptionEndpoint = Marker("not-subscribed")

\* C2, amended: a report POSTed while no push subscription exists carries
\* "not-subscribed" when the page issues it and "not-available-in-sw" when
\* the worker issues it
C2_MarkerPerReporter ==
    \A post \in BagToSet(navPosts) :
        ~post.subscribed =>
            post.subscriptionEndpoint =
                IF post.from = "worker" THEN Marker("not-available-in-sw")
                                        ELSE Marker("not-subscribed")

\* the page and the worker have both reported with no subscription in place,
\* and a report was issued with one in place
C2_Witness ==
    /\ \E post \in BagToSet(navPosts) : post.from = "worker" /\ ~post.subscribed
    /\ \E post \in BagToSet(navPosts) : post.from = "message" /\ ~post.subscribed
    /\ \E post \in BagToSet(navPosts) : post.from = "click" /\ ~post.subscribed

C7_ActivateDeletesAllOthers ==
    activatePc = "claimed" =>
        /\ CurrentCache \in cacheNames
        /\ \A cacheName \in bucketsBefore :
               cacheName # CurrentCache => cacheName \notin cacheNames

\* C7, amended: after activate, every bucket named static-cache-<tag> with a
\* tag other than the current one is deleted with its entries; the current
\* bucket and every bucket whose name does not start with 'static-cache-'
\* are retained
C7_ActivateDeletesStaleStatic ==
    activatePc = "claimed" =>
        /\ CurrentCache \in cacheNames
        /\ cacheNames =
               {cacheName \in bucketsBefore :
                    cacheName.prefix # "static-cache-" \/ cacheName.tag = VERSION}
        /\ \A entry \in cacheEntries : entry.bucket \in cacheNames
        /\ \A path \in PrecachedPaths :
               [bucket |-> CurrentCache, url |-> URL(OwnHost, path), status |-> 200]
                   \in cacheEntries

\* activate has completed in a profile that held stale static buckets and
\* buckets of other names
C7_Witness ==
    /\ activatePc = "claimed"
    /\ bucketsBefore \cap StaleStaticCaches # {}
    /\ bucketsBefore \cap ForeignCaches # {}
    /\ cacheNames \cap ForeignCaches # {}

(***************************************************************************)
(* Properties of the fetch handler (SpecFetch).                            *)
(***************************************************************************)
\* the request is a GET navigation to a host that ends with vercel.app
TrackedByFields(req) ==
    /\ req.method = "GET"
    /\ req.mode = "navigate"
    /\ EndsWithVercelApp(req.url.host)

\* C8, as claimed: a request answered from the cache causes no network call
\* at all, navigations to the tracked domain included
C8_CachedMeansNoNetworkCall ==
    \A e \in Fetches :
        respond[e] = "cached" =>
            networkCalls[e] = 0 /\ ReportCount(e, ByWorker) = 0

\* C8, amended: a request whose response is in the cache is answered with the
\* cached response and is not fetched from the network (the handler goes to
\* the network only when caches.match found nothing); the one network call
\* its handling can issue is the worker's POST to /log-navigation, issued for
\* a GET navigation to a vercel.app host and for no other request
C8_CachedMeansNoFetch ==
    \A e \in Fetches :
        /\ respond[e] = "cached" =>
               /\ networkCalls[e] = 0
               /\ ~putIssued[e]
               /\ response[e] # 0
        /\ respond[e] \in {"network", "fetched", "failed"} => missed[e]
        /\ ReportCount(e, ByWorker) <= 1
        /\ ReportCount(e, ByWorker) = 1 => TrackedByFields(request[e])
        /\ swReport[e] # "none" <=> respond[e] # "none" /\ TrackedByFields(request[e])

\* a tracked navigation was answered from the cache and the worker has
\* POSTed its report
C8_Witness ==
    \E e \in Fetches :
        respond[e] = "cached" /\ ReportCount(e, ByWorker) = 1 /\ networkCalls[e] = 0

C10_FailedResponsesNeverServedFromCache ==
    \A e \in Fetches : respond[e] = "cached" => response[e] = 200

(***************************************************************************)
(* Properties of the page loads and the permission button (SpecPage).      *)
(***************************************************************************)
\* the positions of a call inside subscribeUserToPush
InSubscribeUserToPush ==
    {"ready", "keyFetch", "getSubscription", "gotSubscription", "subscribe", "send"}

\* C11: subscribeUserToPush is entered only in the step in which a permission
\* request started by a click on the permission button resolves to 'granted';
\* pushManager.subscribe is invoked, and the platform's subscription changes,
\* only inside such a call. No step of a page load, of the registration, of
\* the page's end or of a denied or dismissed request enters it.
C11_SubscribeOnlyAfterGrant ==
    [][\A p \in Calls :
          /\ (pc'[p] \in InSubscribeUserToPush /\ pc[p] \notin InSubscribeUserToPush)
                 \/ (entered'[p] /\ ~entered[p])
               => pc[p] = "permission" /\ permission' = "granted" /\ loaded
          /\ subscribeInvoked'[p] # subscribeInvoked[p]
               => entered[p] /\ permission = "granted" /\ pc[p] = "gotSubscription"
          /\ pushSub' # pushSub
               => \E q \in Calls :
                      pc[q] = "subscribe" /\ entered[q] /\ permission = "granted"
      ]_vars

\* a call whose request was dismissed has ended without subscribing, a later
\* call was granted and has invoked subscribe(), and a registration has
\* completed
C11_Witness ==
    /\ regPc = "done"
    /\ \E p, q \in Calls :
           /\ q < p
           /\ pc[q] = "done" /\ ~entered[q]
           /\ entered[p] /\ subscribeInvoked[p] # "no"

\* C12: whenever the key 'pushSubscription' holds a value, the platform has a
\* push subscription and the value carries its endpoint, after any sequence
\* of page loads, registrations, calls and page ends
C12_StoredIsCurrentSubscription ==
    localStorage # NoItem =>
        /\ pushSub # NoSub
        /\ JSONparseEndpoint(localStorage) = pushSub.endpoint

\* the key was written by the register().then(...) chain of a second load,
\* after the first page ended between subscribe() and the local write
C12_Witness ==
    /\ loads = 2
    /\ regPc = "done"
    /\ regSubscription # NoSub
    /\ localStorage # NoItem
    /\ \A p \in Calls : ~stored[p]

(***************************************************************************)
(* Properties of the report of the subscription (SpecSubLive).             *)
(***************************************************************************)
\* C13: once subscribeUserToPush has obtained a subscription, existing or
\* new, the POST to /subscribe is issued for it and the subscription is
\* persisted to local storage and returned in the end, whatever becomes of the
\* POST. The local write and the return come after
\* `await sendSubscriptionToServer(subscription)` (part_000:76-81): a POST
\* that is never settled keeps the call from both.
C13_ObtainedIsEventuallyPersisted ==
    \A p \in Calls :
        (pc[p] = "send") ~>
            (Posted(p, returned[p]) /\ stored[p] /\ pc[p] = "done")

(***************************************************************************)
(* Properties of urlBase64ToUint8Array (SpecCodec).                        *)
(***************************************************************************)
\* the string without its trailing padding characters
RECURSIVE Unpadded(_)
Unpadded(str) ==
    IF Len(str) > 0 /\ str[Len(str)] = "="
    THEN Unpadded(SubSeq(str, 1, Len(str) - 1))
    ELSE str

\* the base64url alphabet (RFC 4648, section 5) and the value of a character
IsBase64UrlChar(c) == c \in {"-", "_"} \/ (IsB64Char(c) /\ c \notin {"+", "/"})

Base64UrlValue(c) == IF c = "-" THEN 62 ELSE IF c = "_" THEN 63 ELSE B64Value(c)

\* a base64url string: characters of the base64url alphabet, a number of them
\* that some byte sequence encodes to, and either no padding or the padding
\* that fills the last group of 4
IsBase64Url(str) ==
    LET body == Unpadded(str)
    IN  /\ \A i \in 1..Len(body) : IsBase64UrlChar(body[i])
        /\ Len(body) % 4 # 1
        /\ Len(str) = Len(body) \/ (Len(str) % 4 = 0 /\ Len(str) - Len(body) <= 2)

\* the bits of the last character that belong to no byte are zero
IsCanonical(body) ==
    LET last == Base64UrlValue(body[Len(body)])
    IN  CASE Len(body) % 4 = 2 -> last % 16 = 0
          [] Len(body) % 4 = 3 -> last % 4 = 0
          [] OTHER -> TRUE

\* C17, as claimed: every base64url string, padded or not, is decoded, and
\* writing the bytes back in the same alphabet gives the characters of the
\* string (without its padding)
C17_RoundTrip ==
    IsBase64Url(base64Input) =>
        /\ codecPc # "called" => outputArray.ok
        /\ codecPc = "reencoded" => reencoded = Unpadded(base64Input)

\* C17, amended: the string is padded with '=' to a multiple of 4 characters,
\* and every base64url string is decoded, to 3 bytes for every 4 characters
\* (a last group of 2 or 3 characters gives 1 or 2 bytes). Writing the bytes
\* back gives a string that decodes to the same bytes and that differs from
\* the argument (without its padding) in the last character at most; the
\* two are equal exactly when the bits of the last character that belong to
\* no byte are zero, for atob drops these bits
C17_RoundTripOfCanonical ==
    /\ Len(base64Input \o Padding(base64Input)) % 4 = 0
    /\ IsBase64Url(base64Input) /\ codecPc # "called" =>
           LET body == Unpadded(base64Input)
           IN  /\ outputArray.ok
               /\ Len(outputArray.data) = (Len(body) * 3) \div 4
               /\ codecPc = "reencoded" =>
                      /\ urlBase64ToUint8Array(reencoded) = outputArray
                      /\ Len(reencoded) = Len(body)
                      /\ \A i \in 1..(Len(body) - 1) : reencoded[i] = body[i]
                      /\ reencoded = body <=> IsCanonical(body)

\* a padded base64url string with '-' or '_' whose last character has such
\* bits set has been decoded and written back
C17_Witness ==
    /\ codecPc = "reencoded"
    /\ IsBase64Url(base64Input)
    /\ Len(base64Input) > Len(Unpadded(base64Input))
    /\ \E i \in 1..Len(base64Input) : base64Input[i] \in {"-", "_"}
    /\ reencoded # Unpadded(base64Input)

(***************************************************************************)
(* Properties of the push and notificationclick handlers (SpecPush).       *)
(***************************************************************************)
\* the notification with the default title, body, icon, tag and url
DefaultNotification ==
    Notification("Navigation Tracker", "A new event was detected.",
                 "/icon-192x192.png", "default", Target("relative", URL(OwnHost, << >>)))

\* C15: every push event ends in exactly one showNotification call, with the
\* fields of the payload when it parses (the default for a field it lacks)
\* and with the defaults when there is no payload or it does not parse. The
\* payload `null` parses, and reading notificationData.title then throws
\* outside the try block (service-worker.js:174): nothing is shown.
C15_EveryPushShowsOneNotification ==
    \A k \in Pushes :
        pushResult[k] # "none" =>
            /\ showCalls[k] = 1
            /\ pushData[k].kind \in {"absent", "invalid"} =>
                   notification[k] = DefaultNotification
            /\ pushData[k].kind = "object" =>
                   \A field \in {"title", "body", "icon", "tag"} :
                       notification[k][field] =
                           IF pushData[k].fields[field] # ""
                           THEN pushData[k].fields[field]
                           ELSE DefaultNotification[field]

\* C16: the click closes the notification, and then a window that shows the
\* target URL is focused and none is opened, or, when no window shows it, a
\* window is opened; never both. The handler compares the strings
\* (service-worker.js:209): the default target '/' is no client's url, so a
\* window that shows it is not found and a second one is opened.
C16_FocusOrOpenExactlyOne ==
    \A k \in Pushes :
        /\ clickPc[k] # "none" => closed[k]
        /\ clickPc[k] = "done" =>
               /\ (focused[k] # NoUrl) # (opened[k] # NoTarget)
               /\ matched[k] =>
                      focused[k] = Resolve(notification[k].url) /\ opened[k] = NoTarget
               /\ ~matched[k] =>
                      opened[k] = notification[k].url /\ focused[k] = NoUrl

(***************************************************************************)
(* Properties of the worker's lifecycle (SpecInstall).                     *)
(***************************************************************************)
\* C18: skipWaiting is called only once the five static paths are stored in
\* static-cache-<VERSION>, and never when a preload has failed; the
\* activation begins only after that, and clients.claim is called only once
\* every deletion of an old bucket has completed
C18_LifecycleOrdering ==
    /\ skipWaiting =>
           /\ CurrentCache \in cacheNames
           /\ \A path \in PrecachedPaths :
                  [bucket |-> CurrentCache, url |-> URL(OwnHost, path), status |-> 200]
                      \in cacheEntries
    /\ (\E path \in PrecachedPaths : preload[path] = "failed") =>
           ~skipWaiting /\ activatePc = "none"
    /\ activatePc # "none" => skipWaiting
    /\ activatePc = "claimed" =>
           /\ toDelete = {}
           /\ \A cacheName \in bucketsBefore :
                  cacheName.prefix = "static-cache-" /\ cacheName.tag # VERSION
                      => cacheName \notin cacheNames

\* the worker was installed beside a bucket of an earlier version, and its
\* activation has claimed the clients
C18_Witness ==
    /\ skipWaiting
    /\ activatePc = "claimed"
    /\ bucketsBefore \cap StaleStaticCaches # {}

(***************************************************************************)
(* Properties of the response of the fetch handler (SpecFetchLive).        *)
(***************************************************************************)
\* C19: the promise given to event.respondWith for a navigation to the
\* tracked domain is settled (with the cached response, the network's
\* response, or the network's failure) whether or not the worker's report
\* and the notification of the clients ever make a step
C19_ReportingNeverBlocksResponse ==
    \A e \in LiveFetches :
        (respond[e] = "match" /\ IsTrackedNavigation(request[e]))
            ~> (respond[e] \in {"cached", "fetched", "failed"})

\* the response to a tracked navigation is delivered while the report still
\* waits for getSubscription() and the clients' lookup has not answered
C19_Witness ==
    \E e \in LiveFetches :
        /\ IsTrackedNavigation(request[e])
        /\ respond[e] \in {"cached", "fetched"}
        /\ swReport[e] = "getSubscription"
        /\ notify[e] = "matchAll"

(***************************************************************************)
(* Properties of the end of the reports (SpecReport).                      *)
(***************************************************************************)
\* C14: a reporter whose POST to /log-navigation has failed (the request was
\* rejected, or the ack could not be parsed) ends in its catch block, and
\* the report it made was POSTed once and is never POSTed again; this holds
\* for the worker's reporter and for the page's
C14_ReportNeverRetried ==
    /\ \A e \in Events :
           swReport[e] \in {"logged", "error"} => ReportCount(e, ByWorker) = 1
    /\ \A e \in PostEvents :
           reportDone[e] \in {"logged", "error"} =>
               LET SameReport(post) == NavPost(post) = origin[e]
               IN  ReportCount(origin[e].nav, SameReport) = 1

\* the worker's reporter has ended in its catch block, and so have a reporter
\* of the page whose request was rejected and one whose ack was not parsable
C14_Witness ==
    /\ \E e \in Events : swReport[e] = "error"
    /\ \E e \in PostEvents : reportDone[e] = "error" /\ respond[e] = "failed"
    /\ \E e \in PostEvents : reportDone[e] = "error" /\ respond[e] = "fetched"

(***************************************************************************)
(* Properties of everything one navigation causes (SpecLoop).              *)
(***************************************************************************)
\* C20: what one navigation and one click on the permission button cause is
\* bounded. A fetch event that carries a POST of the page to /log-navigation
\* or to /subscribe posts no 'navigation' message and starts no report of
\* the worker; a 'log' message makes the page send nothing, so every POST to
\* /log-navigation belongs to the navigation and /subscribe has the one POST
\* of the click; the navigation is reported at most once by the worker and
\* once per client, the worker handles at most one fetch event per request,
\* and it logs at most three times (twice in the fetch listener, once at the
\* end of its report)
C20_NoFeedbackLoop ==
    /\ \A e \in Events :
           origin[e] # NoPost => notify[e] = "none" /\ swReport[e] = "none"
    /\ \A post \in BagToSet(navPosts) : post.nav \in LoopNavs
    /\ subscribePosts = {[call |-> 1, endpoint |-> 1]}
    /\ \A e \in LoopNavs :
           /\ ReportCount(e, ByWorker) <= 1
           /\ ReportCount(e, ByAnyone) <= 1 + Cardinality(Clients)
    /\ Cardinality({e \in Events : respond[e] # "none"}) <= 2 + Cardinality(Clients)
    /\ \A c \in Clients : swLogs + logInbox[c] <= 3

\* the worker has answered a POST to /log-navigation and the POST to
\* /subscribe of the page, its report has ended, and every client has
\* handled every 'log' message
C20_Witness ==
    /\ \E e \in Events :
           origin[e].kind = "log-navigation" /\ respond[e] \in {"fetched", "failed"}
    /\ \E e \in Events :
           origin[e].kind = "subscribe" /\ respond[e] \in {"fetched", "failed"}
    /\ \E e \in LoopNavs : swReport[e] \in {"logged", "error"}
    /\ swLogs = 0
    /\ \A c \in Clients : logInbox[c] = 0

=============================================================================
